---------------------------- MODULE Spec2Model ----------------------------
(***************************************************************************)
(* Verification model of the shared core of nb-scraper (app/utils.ts) and  *)
(* of the entry / exit paths of the scraper functions built on it.         *)
(*                                                                         *)
(*   SpecRequest  : makeRequest, the retrying HTTP helper                  *)
(*   SpecValidate : validateRequiredParams                                 *)
(*   SpecEnvelope : createErrorResponse / createSuccessResponse            *)
(*   SpecAdapter  : the scraper functions (validation, requests, catch)    *)
(***************************************************************************)
EXTENDS Integers, Sequences, FiniteSets, TLC

VARIABLES
  pc,          \* position of the running operation
  options,     \* makeRequest: the options argument (RequestConfig)
  retries,     \* makeRequest: destructured retries
  retryDelay,  \* makeRequest: destructured retryDelay
  attempt,     \* makeRequest: loop counter
  lastError,   \* makeRequest: lastError
  calls,       \* makeRequest: outcome of every axios(requestConfig) call, in order
  sleeps,      \* makeRequest: argument of every sleep(ms) call, in order
  trace,       \* makeRequest: "call" / "sleep" events in order
  result,      \* makeRequest: what the promise settled with
  params,      \* validateRequiredParams: params argument
  required,    \* validateRequiredParams: required argument
  vout,        \* validateRequiredParams: outcome
  errorIn,     \* createErrorResponse: error argument
  contextIn,   \* createErrorResponse: context argument
  dataIn,      \* createSuccessResponse: data argument
  envelope,    \* the envelope built (or the exception raised)
  adapter,     \* scraper function invoked
  arg,         \* its argument
  netCount,    \* number of network requests the scraper issued
  ret,         \* what the scraper call ended with
  inv,         \* concurrent invocations: the local state of each
  world        \* what concurrent invocations share: clock, files, cache

reqVars == <<options, retries, retryDelay, attempt, lastError, calls, sleeps, trace, result>>
valVars == <<params, required, vout>>
envVars == <<errorIn, contextIn, dataIn, envelope>>
adVars  == <<adapter, arg, netCount, ret>>
conVars == <<inv, world>>
vars    == <<pc, reqVars, valVars, envVars, adVars, conVars>>

\* JavaScript's undefined and null
Undefined == [t |-> "undefined"]
Null      == [t |-> "null"]
\* a JavaScript number
Num(n) == [t |-> "number", n |-> n]

(***************************************************************************)
(* Bounds                                                                  *)
(***************************************************************************)
MaxRetries == 3
MaxStrLen == 2
MaxRequired == 2
MaxFragments == 2
MaxRequests == 2
NumCalls == 2
MaxPieces == 4
MaxClock == 2

(***************************************************************************)
(* DEFAULT_CONFIG                                                          *)
(***************************************************************************)
DefaultTimeout    == 30000
DefaultRetries    == 3
DefaultRetryDelay == 1000

(***************************************************************************)
(* The HTTP transport: outcomes of one axios(requestConfig) call.          *)
(***************************************************************************)
ErrorStatuses == {304, 400, 404, 429, 499, 500, 503}

\* a resolved call
OkOutcome == [ok |-> TRUE, isAxios |-> FALSE, hasResponse |-> TRUE, status |-> 200]

\* a rejected call: an AxiosError carrying a response status, an AxiosError
\* without a response (connection failure, timeout), or some other exception
FailOutcomes ==
  [ok : {FALSE}, isAxios : {TRUE}, hasResponse : {TRUE}, status : ErrorStatuses]
    \cup [ok : {FALSE}, isAxios : BOOLEAN, hasResponse : {FALSE}, status : {0}]

Outcomes == {OkOutcome} \cup FailOutcomes

\* the status test of the catch block: an AxiosError whose response status is
\* truthy, at least 400, below 500 and not 429
NonRetryableFrom401(e) ==
  /\ e.isAxios /\ e.hasResponse /\ e.status # 0
  /\ e.status > 400 /\ e.status < 500 /\ e.status # 429

NonRetryableUpTo500(e) ==
  /\ e.isAxios /\ e.hasResponse /\ e.status # 0
  /\ e.status >= 400 /\ e.status <= 500 /\ e.status # 429

NonRetryable(e) ==
  /\ e.isAxios
  /\ e.hasResponse
  /\ e.status # 0
  /\ e.status >= 400
  /\ e.status < 500
  /\ e.status # 429

\* default-valued destructuring: a default applies when the property is undefined
OrDefaultZero(v, d) == IF v = Undefined THEN 0 ELSE v.n
OrDefault(v, d) == IF v = Undefined THEN d ELSE v.n

RetriesInputs    == {Num(n) : n \in -1 .. MaxRetries} \cup {Undefined}
RetryDelayInputs == {Num(0), Num(7), Num(1000), Undefined}

IdleReq ==
  /\ options = Undefined /\ retries = 0 /\ retryDelay = 0 /\ attempt = 0
  /\ lastError = Undefined /\ calls = <<>> /\ sleeps = <<>> /\ trace = <<>>
  /\ result = Undefined
IdleVal == params = Undefined /\ required = <<>> /\ vout = Undefined
IdleEnv == errorIn = Undefined /\ contextIn = Undefined /\ dataIn = Undefined /\ envelope = Undefined
IdleCon == inv = <<>> /\ world = [t |-> "undefined"]
IdleAd  == adapter = "none" /\ arg = Undefined /\ netCount = 0 /\ ret = Undefined

(***************************************************************************)
(* Strings are sequences of one-character strings, so that trim, includes  *)
(* and concatenation are computed character by character.                  *)
(***************************************************************************)
\* ScraperErrorType: the text of each member
KindText(k) ==
  CASE k = "NETWORK_ERROR" -> <<"N", "E", "T", "W", "O", "R", "K", "_", "E", "R", "R", "O", "R">>
    [] k = "INVALID_PARAMETER" -> <<"I", "N", "V", "A", "L", "I", "D", "_", "P", "A", "R", "A", "M", "E", "T", "E", "R">>
    [] k = "INVALID_INPUT" -> <<"I", "N", "V", "A", "L", "I", "D", "_", "I", "N", "P", "U", "T">>
    [] k = "INVALID_RESPONSE" -> <<"I", "N", "V", "A", "L", "I", "D", "_", "R", "E", "S", "P", "O", "N", "S", "E">>
    [] k = "RATE_LIMITED" -> <<"R", "A", "T", "E", "_", "L", "I", "M", "I", "T", "E", "D">>
    [] k = "SERVICE_UNAVAILABLE" -> <<"S", "E", "R", "V", "I", "C", "E", "_", "U", "N", "A", "V", "A", "I", "L", "A", "B", "L", "E">>
    [] k = "AUTH_ERROR" -> <<"A", "U", "T", "H", "_", "E", "R", "R", "O", "R">>
    [] k = "PARSE_ERROR" -> <<"P", "A", "R", "S", "E", "_", "E", "R", "R", "O", "R">>
    [] k = "IMAGE_GENERATION_ERROR" -> <<"I", "M", "A", "G", "E", "_", "G", "E", "N", "E", "R", "A", "T", "I", "O", "N", "_", "E", "R", "R", "O", "R">>
    [] k = "API_ERROR" -> <<"A", "P", "I", "_", "E", "R", "R", "O", "R">>
    [] k = "DOWNLOAD_ERROR" -> <<"D", "O", "W", "N", "L", "O", "A", "D", "_", "E", "R", "R", "O", "R">>
    [] k = "NOT_FOUND" -> <<"N", "O", "T", "_", "F", "O", "U", "N", "D">>
    [] k = "QUALITY_NOT_AVAILABLE" -> <<"Q", "U", "A", "L", "I", "T", "Y", "_", "N", "O", "T", "_", "A", "V", "A", "I", "L", "A", "B", "L", "E">>
    [] k = "UNKNOWN_ERROR" -> <<"U", "N", "K", "N", "O", "W", "N", "_", "E", "R", "R", "O", "R">>

ScraperErrorType ==
  {"NETWORK_ERROR",
   "INVALID_PARAMETER",
   "INVALID_INPUT",
   "INVALID_RESPONSE",
   "RATE_LIMITED",
   "SERVICE_UNAVAILABLE",
   "AUTH_ERROR",
   "PARSE_ERROR",
   "IMAGE_GENERATION_ERROR",
   "API_ERROR",
   "DOWNLOAD_ERROR",
   "NOT_FOUND",
   "QUALITY_NOT_AVAILABLE",
   "UNKNOWN_ERROR"}

W_network == <<"n", "e", "t", "w", "o", "r", "k">>
W_timeout == <<"t", "i", "m", "e", "o", "u", "t">>
W_rate == <<"r", "a", "t", "e">>
W_limit == <<"l", "i", "m", "i", "t">>

\* message fragments the inputs are built from
F_boom == <<"b", "o", "o", "m">>
F_Network == <<"N", "e", "t", "w", "o", "r", "k">>
F_ra == <<"r", "a">>
F_te == <<"t", "e">>
F_sp == <<" ">>
ContextSepTight == <<" ", "|", "C", "o", "n", "t", "e", "x", "t", ":">>
ContextSep == <<" ", "|", " ", "C", "o", "n", "t", "e", "x", "t", ":", " ">>

\* the names of the parameters the model passes around, and their text
ParamNames == {"url", "query"}
NameText(n) ==
  CASE n = "url" -> <<"u", "r", "l">>
    [] n = "query" -> <<"q", "u", "e", "r", "y">>
    [] n = "prompt" -> <<"p", "r", "o", "m", "p", "t">>
    [] n = "keyword" -> <<"k", "e", "y", "w", "o", "r", "d">>
    [] n = "topic" -> <<"t", "o", "p", "i", "c">>

M_Parameter == <<"P", "a", "r", "a", "m", "e", "t", "e", "r", " ", "'">>
M_required == <<"'", " ", "i", "s", " ", "r", "e", "q", "u", "i", "r", "e", "d", " ", "a", "n", "d", " ", "c", "a", "n", "n", "o", "t", " ", "b", "e", " ", "e", "m", "p", "t", "y">>
M_emptyString == <<"'", " ", "c", "a", "n", "n", "o", "t", " ", "b", "e", " ", "a", "n", " ", "e", "m", "p", "t", "y", " ", "s", "t", "r", "i", "n", "g">>

(***************************************************************************)
(* JavaScript values                                                       *)
(***************************************************************************)
Str(s)  == [t |-> "string", s |-> s]
Bool(b) == [t |-> "boolean", b |-> b]
\* an object, as the mapping of its own properties
Obj(f)  == [t |-> "object", f |-> f]
\* an Error instance
Err(name, message) == [t |-> "Error", name |-> name, message |-> message]

\* characters String.prototype.trim removes
Whitespace == {" ", "\t"}
Chars == {" ", "\t", "a"}

RECURSIVE TrimStart(_)
TrimStart(s) ==
  IF s # <<>> /\ s[1] \in Whitespace THEN TrimStart(Tail(s)) ELSE s

RECURSIVE TrimEnd(_)
TrimEnd(s) ==
  IF s # <<>> /\ s[Len(s)] \in Whitespace THEN TrimEnd(SubSeq(s, 1, Len(s) - 1)) ELSE s

\* String.prototype.trim
TrimStartOnly(s) == TrimStart(s)
Trim(s) == TrimEnd(TrimStart(s))

\* params[param]: an own property, or undefined
Lookup(obj, name) ==
  IF name \in DOMAIN obj.f THEN obj.f[name] ELSE Undefined

(***************************************************************************)
(* validateRequiredParams                                                  *)
(***************************************************************************)
\* value === undefined || value === null || value === ''
IsFalsy(value) ==
  \/ value \in {Undefined, Null, Str(<<>>)}
  \/ value = Num(0)
  \/ value = Bool(FALSE)

IsMissing(value) ==
  \/ value = Undefined
  \/ value = Null
  \/ value = Str(<<>>)

\* typeof value === 'string' && value.trim() === ''
IsBlankString(value) ==
  /\ value.t = "string"
  /\ Trim(value.s) = <<>>

RequiredMessage(param) == M_Parameter \o NameText(param) \o M_required
EmptyStringMessage(param) == M_Parameter \o NameText(param) \o M_emptyString

\* the loop over required, from index i on: the first failing name throws
RECURSIVE ValidateFrom(_, _, _)
ValidateFrom(ps, req, i) ==
  IF i > Len(req) THEN [t |-> "return"]
  ELSE IF ps.t # "object"
         THEN [t |-> "throw", param |-> req[i], why |-> "TypeError",
               error |-> Err("TypeError", <<>>)]
  ELSE LET value == Lookup(ps, req[i]) IN
       IF IsMissing(value)
         THEN [t |-> "throw", param |-> req[i], why |-> "required",
               error |-> Err("Error", RequiredMessage(req[i]))]
       ELSE IF IsBlankString(value)
         THEN [t |-> "throw", param |-> req[i], why |-> "emptyString",
               error |-> Err("Error", EmptyStringMessage(req[i]))]
       ELSE ValidateFrom(ps, req, i + 1)

ValidateRequiredParams(ps, req) == ValidateFrom(ps, req, 1)

RECURSIVE SeqsUpTo(_, _)
SeqsUpTo(S, n) ==
  IF n = 0 THEN {<<>>}
  ELSE LET shorter == SeqsUpTo(S, n - 1)
       IN shorter \cup {Append(s, x) : s \in {q \in shorter : Len(q) = n - 1}, x \in S}

\* the values a parameter is given
ParamValues ==
  {Undefined, Null, Num(0), Num(7), Bool(FALSE)}
    \cup {Str(s) : s \in SeqsUpTo(Chars, MaxStrLen)}

InitValidate ==
  /\ pc = "validate"
  /\ \E f \in [ParamNames -> ParamValues] : params = Obj(f)
  /\ required \in SeqsUpTo(ParamNames \cup {"prompt"}, MaxRequired)
  /\ vout = Undefined
  /\ IdleReq /\ IdleEnv /\ IdleAd
  /\ IdleCon

Validate ==
  /\ pc = "validate"
  /\ vout' = ValidateRequiredParams(params, required)
  /\ pc' = "validated"
  /\ UNCHANGED <<params, required>>
  /\ UNCHANGED <<reqVars, envVars, adVars>>
  /\ UNCHANGED conVars

NextValidate == Validate

SpecValidate == InitValidate /\ [][NextValidate]_vars

(***************************************************************************)
(* createErrorResponse / createSuccessResponse                             *)
(***************************************************************************)
CREATOR == "nb-scraper"

\* String.prototype.includes
Includes(s, sub) ==
  \E i \in 1 .. Len(s) - Len(sub) + 1 : SubSeq(s, i, i + Len(sub) - 1) = sub

\* a structured ScraperError
Scr(type, message) == [t |-> "ScraperError", type |-> type, message |-> message]

\* a property value that refers back to the object holding it
Circular == [t |-> "circular"]

\* JSON.stringify of a string: quotes and backslashes are escaped
RECURSIVE JsonEscape(_)
JsonEscape(s) ==
  IF s = <<>> THEN <<>>
  ELSE IF Len(s) = 1
    THEN (IF s[1] \in {"\"", "\\"} THEN <<"\\", s[1]>> ELSE s)
  ELSE LET half == Len(s) \div 2 IN
       JsonEscape(SubSeq(s, 1, half)) \o JsonEscape(SubSeq(s, half + 1, Len(s)))

JsonString(s) == <<"\"">> \o JsonEscape(s) \o <<"\"">>

\* the decimal digits of a natural number
RECURSIVE Digits(_)
Digits(n) ==
  LET d == <<"0", "1", "2", "3", "4", "5", "6", "7", "8", "9">>[(n % 10) + 1] IN
  IF n < 10 THEN <<d>> ELSE Digits(n \div 10) \o <<d>>

\* JSON.stringify of a value: strings are quoted, null is null, an object
\* is the list of its properties; properties whose value is undefined are
\* left out
RECURSIVE JsonValue(_)
RECURSIVE JsonProps(_, _)
JsonValue(v) ==
  IF v.t = "string" THEN JsonString(v.s)
  ELSE IF v.t = "number" THEN Digits(v.n)
  ELSE IF v.t = "null" THEN <<"n", "u", "l", "l">>
  ELSE IF v.t = "boolean"
    THEN (IF v.b THEN <<"t", "r", "u", "e">> ELSE <<"f", "a", "l", "s", "e">>)
  ELSE <<"{">> \o JsonProps(v.props, TRUE) \o <<"}">>

JsonProps(props, first) ==
  IF props = <<>> THEN <<>>
  ELSE IF props[1].v = Undefined THEN JsonProps(Tail(props), first)
  ELSE (IF first THEN <<>> ELSE <<",">>)
         \o JsonString(props[1].k) \o <<":">> \o JsonValue(props[1].v)
         \o JsonProps(Tail(props), FALSE)

\* whether an object reaches itself through its properties
RECURSIVE HasCycle(_)
HasCycle(v) ==
  /\ v.t = "object"
  /\ \E i \in 1 .. Len(v.props) :
       v.props[i].v = Circular \/ HasCycle(v.props[i].v)

\* JSON.stringify(context): throws a TypeError on a circular structure
JsonStringify(ctx) ==
  IF HasCycle(ctx)
    THEN [t |-> "throw", error |-> Err("TypeError", <<>>)]
    ELSE [t |-> "return", s |-> JsonValue(ctx)]

\* a context object, as the sequence of its properties
Ctx(props) == [t |-> "object", props |-> props]

\* the error-kind selection of the if / else-if chain
ClassifyRateFirst(error) ==
  IF error.t = "string" THEN "UNKNOWN_ERROR"
  ELSE IF error.t = "Error" THEN
    IF Includes(error.message, W_rate) \/ Includes(error.message, W_limit)
      THEN "RATE_LIMITED"
    ELSE IF error.name = "AxiosError" \/ Includes(error.message, W_network)
      THEN "NETWORK_ERROR"
    ELSE IF Includes(error.message, W_timeout) THEN "NETWORK_ERROR"
    ELSE "UNKNOWN_ERROR"
  ELSE error.type

Classify(error) ==
  IF error.t = "string" THEN "UNKNOWN_ERROR"
  ELSE IF error.t = "Error" THEN
    IF error.name = "AxiosError" \/ Includes(error.message, W_network)
      THEN "NETWORK_ERROR"
    ELSE IF Includes(error.message, W_timeout) THEN "NETWORK_ERROR"
    ELSE IF Includes(error.message, W_rate) \/ Includes(error.message, W_limit)
      THEN "RATE_LIMITED"
    ELSE "UNKNOWN_ERROR"
  ELSE error.type

MessageOf(error) == IF error.t = "string" THEN error.s ELSE error.message

\* the envelope objects
ErrorEnvelope(text) ==
  [t |-> "envelope", library |-> CREATOR, status |-> FALSE,
   data |-> Undefined, error |-> Str(text)]

SuccessEnvelope(data) ==
  [t |-> "envelope", library |-> CREATOR, status |-> TRUE,
   data |-> data, error |-> Undefined]

\* the first "type" property of a context, or undefined
RECURSIVE TypeIn(_)
TypeIn(props) ==
  IF props = <<>> THEN Undefined
  ELSE IF props[1].k = <<"t", "y", "p", "e">> /\ props[1].v.t = "string" THEN props[1].v
  ELSE TypeIn(Tail(props))

\* createErrorResponse taking the kind from context.type when there is one
CreateErrorResponseKindFromContext(error, context) ==
  IF error \in {Undefined, Null}
    THEN [t |-> "throw", error |-> Err("TypeError", <<>>)]
  ELSE IF context \in {Undefined, Null}
    THEN ErrorEnvelope(<<"[">> \o KindText(Classify(error)) \o <<"]", " ">> \o MessageOf(error))
  ELSE LET json == JsonStringify(context)
           kind == IF context.t = "object" /\ TypeIn(context.props) # Undefined
                     THEN TypeIn(context.props).s
                     ELSE KindText(Classify(error))
       IN IF json.t = "throw" THEN json
          ELSE ErrorEnvelope(<<"[">> \o kind \o <<"]", " ">> \o MessageOf(error)
                               \o ContextSep \o json.s)

\* createErrorResponse: the envelope returned, or the exception raised when
\* error is undefined / null (reading error.message) or the context cannot
\* be serialized
CreateErrorResponse(error, context) ==
  IF error \in {Undefined, Null}
    THEN [t |-> "throw", error |-> Err("TypeError", <<>>)]
  ELSE LET head == <<"[">> \o KindText(Classify(error)) \o <<"]", " ">> \o MessageOf(error)
       IN IF context \in {Undefined, Null}
            THEN ErrorEnvelope(head)
          ELSE LET json == JsonStringify(context)
               IN IF json.t = "throw" THEN json
                  ELSE ErrorEnvelope(head \o ContextSep \o json.s)

CreateSuccessResponse(data) == SuccessEnvelope(data)

Fragments == {F_boom, F_Network, F_ra, F_te, F_sp, W_network, W_timeout, W_rate, W_limit}

RECURSIVE Flatten(_)
Flatten(ss) == IF ss = <<>> THEN <<>> ELSE ss[1] \o Flatten(Tail(ss))

Messages == {Flatten(fs) : fs \in SeqsUpTo(Fragments, MaxFragments)}

ErrorNames == {"Error", "AxiosError"}
ExplicitKinds == {"API_ERROR", "INVALID_INPUT", "UNKNOWN_ERROR"}

ErrorInputs ==
  {Str(m) : m \in Messages}
    \cup {Err(n, m) : n \in ErrorNames, m \in Messages}
    \cup {Scr(k, m) : k \in ExplicitKinds, m \in Messages}
    \cup {Undefined}

K_type == <<"t", "y", "p", "e">>
K_url == <<"u", "r", "l">>
K_self == <<"s", "e", "l", "f">>

ContextInputs ==
  { Undefined,
    Ctx(<<>>),
    Ctx(<<[k |-> K_type, v |-> Str(KindText("NETWORK_ERROR"))]>>),
    Ctx(<<[k |-> K_url, v |-> Str(<<"a", "\"">>)], [k |-> K_type, v |-> Undefined]>>),
    Ctx(<<[k |-> K_url, v |-> Str(<<"a">>)], [k |-> K_self, v |-> Circular]>>) }

DataInputs ==
  {Undefined, Null, Num(0), Bool(FALSE), Str(<<>>), Str(F_boom),
   Obj([url |-> Str(<<"a">>)])}

InitEnvelope ==
  /\ pc = "build"
  /\ \/ /\ errorIn \in ErrorInputs
        /\ contextIn \in ContextInputs
        /\ dataIn = Undefined
        /\ envelope = [t |-> "pending", op |-> "createErrorResponse"]
     \/ /\ errorIn = Undefined
        /\ contextIn = Undefined
        /\ dataIn \in DataInputs
        /\ envelope = [t |-> "pending", op |-> "createSuccessResponse"]
  /\ IdleReq /\ IdleVal /\ IdleAd
  /\ IdleCon

CreateError ==
  /\ pc = "build"
  /\ envelope.op = "createErrorResponse"
  /\ envelope' = CreateErrorResponse(errorIn, contextIn)
  /\ pc' = "builtError"
  /\ UNCHANGED <<errorIn, contextIn, dataIn>>
  /\ UNCHANGED <<reqVars, valVars, adVars>>
  /\ UNCHANGED conVars

CreateSuccess ==
  /\ pc = "build"
  /\ envelope.op = "createSuccessResponse"
  /\ envelope' = CreateSuccessResponse(dataIn)
  /\ pc' = "builtSuccess"
  /\ UNCHANGED <<errorIn, contextIn, dataIn>>
  /\ UNCHANGED <<reqVars, valVars, adVars>>
  /\ UNCHANGED conVars

NextEnvelope == CreateError \/ CreateSuccess

SpecEnvelope == InitEnvelope /\ [][NextEnvelope]_vars

(***************************************************************************)
(* The scraper functions: entry, validation, requests, catch block         *)
(***************************************************************************)
K_options == <<"o", "p", "t", "i", "o", "n", "s">>
K_context == <<"c", "o", "n", "t", "e", "x", "t">>
K_service == <<"s", "e", "r", "v", "i", "c", "e">>
K_model == <<"m", "o", "d", "e", "l">>
K_query == <<"q", "u", "e", "r", "y">>
K_clientId == <<"c", "l", "i", "e", "n", "t", "I", "d">>
K_youtubeUrl == <<"y", "o", "u", "t", "u", "b", "e", "U", "r", "l">>
K_format == <<"f", "o", "r", "m", "a", "t">>
K_queryLength == <<"q", "u", "e", "r", "y", "L", "e", "n", "g", "t", "h">>
K_domain == <<"d", "o", "m", "a", "i", "n">>
T_InvalidUrlFormat == <<"I", "n", "v", "a", "l", "i", "d", " ", "U", "R", "L", " ", "f", "o", "r", "m", "a", "t">>
T_MustBeThreads == <<"U", "R", "L", " ", "m", "u", "s", "t", " ", "b", "e", " ", "f", "r", "o", "m", " ", "t", "h", "r", "e", "a", "d", "s", ".", "n", "e", "t">>
T_QueryEmpty == <<"Q", "u", "e", "r", "y", " ", "c", "a", "n", "n", "o", "t", " ", "b", "e", " ", "e", "m", "p", "t", "y">>
T_QueryTooLong == <<"Q", "u", "e", "r", "y", " ", "t", "o", "o", " ", "l", "o", "n", "g", " ", "(", "m", "a", "x", " ", "1", "0", ",", "0", "0", "0", " ", "c", "h", "a", "r", "a", "c", "t", "e", "r", "s", ")">>
T_InvalidResponse == <<"I", "n", "v", "a", "l", "i", "d", " ", "r", "e", "s", "p", "o", "n", "s", "e", " ", "f", "o", "r", "m", "a", "t">>
T_NetworkError == <<"N", "e", "t", "w", "o", "r", "k", " ", "E", "r", "r", "o", "r">>
T_VideoIdError == <<"N", "e", "t", "w", "o", "r", "k", " ", "e", "r", "r", "o", "r", " ", "w", "h", "i", "l", "e", " ", "g", "e", "t", "t", "i", "n", "g", " ", "v", "i", "d", "e", "o", " ", "I", "D", ":", " ", "F", "a", "i", "l", "e", "d", " ", "t", "o", " ", "p", "a", "r", "s", "e", " ", "U", "R", "L">>
T_DeepInfraAI == <<"D", "e", "e", "p", "I", "n", "f", "r", "a", "A", "I">>
T_SoundCloud == <<"S", "o", "u", "n", "d", "C", "l", "o", "u", "d">>
T_Pollinations == <<"P", "o", "l", "l", "i", "n", "a", "t", "i", "o", "n", "s">>
T_ytmp3cc == <<"y", "t", "m", "p", "3", "c", "c">>
T_mp3 == <<"m", "p", "3">>
T_null == <<"n", "u", "l", "l">>
T_threadsNet == <<"t", "h", "r", "e", "a", "d", "s", ".", "n", "e", "t">>
UrlScheme == <<"h", "t", "t", "p", "s", ":", "/", "/">>
U_threads == <<"h", "t", "t", "p", "s", ":", "/", "/", "w", "w", "w", ".", "t", "h", "r", "e", "a", "d", "s", ".", "n", "e", "t", "/", "p">>
U_other == <<"h", "t", "t", "p", "s", ":", "/", "/", "x", ".", "i", "o", "/">>
POLLINATIONS_BASE_URL == <<"h", "t", "t", "p", "s", ":", "/", "/", "i", "m", "a", "g", "e", ".", "p", "o", "l", "l", "i", "n", "a", "t", "i", "o", "n", "s", ".", "a", "i", "/", "p", "r", "o", "m", "p", "t", "/">>
T_nologo == <<"?", "n", "o", "l", "o", "g", "o", "=", "t", "r", "u", "e">>

\* blackbox.ts: the longest query accepted
MaxQueryLengthSquared == 10000 * 10000
MaxQueryLength == 10000

\* String.prototype.substring(0, n)
Substring0(s, n) == SubSeq(s, 1, IF Len(s) < n THEN Len(s) ELSE n)

\* 'a'.repeat(n)
Repeat(n) == [i \in 1 .. n |-> "a"]

StartsWith(s, prefix) == Len(s) >= Len(prefix) /\ SubSeq(s, 1, Len(prefix)) = prefix

\* isValidUrl: new URL(url) succeeds.  On the strings the model passes, a
\* URL is "https://" followed by a non-empty rest.
IsValidUrl(s) == StartsWith(s, UrlScheme) /\ Len(s) > Len(UrlScheme)

\* extractDomain: the hostname, i.e. the text after the scheme up to the
\* first "/"
RECURSIVE UpToSlash(_)
UpToSlash(s) ==
  IF s = <<>> \/ s[1] = "/" THEN <<>> ELSE <<s[1]>> \o UpToSlash(Tail(s))

ExtractDomain(s) == UpToSlash(SubSeq(s, Len(UrlScheme) + 1, Len(s)))

\* encodeURIComponent, on the characters the model uses
RECURSIVE EncodeURIComponent(_)
EncodeURIComponent(s) ==
  IF s = <<>> THEN <<>>
  ELSE (IF s[1] = " " THEN <<"%", "2", "0">>
        ELSE IF s[1] = "\t" THEN <<"%", "0", "9">>
        ELSE <<s[1]>>) \o EncodeURIComponent(Tail(s))

Adapters ==
  {"threads", "blackboxAi", "pinterest", "generateDeepInfraResponse",
   "searchSoundCloud", "generatePollinationsImage", "getPollinationsDirectUrl",
   "ytmp3cc.download"}

\* scraper functions that take one options object; the others take the
\* required value as their first argument
TakesOptions ==
  {"generateDeepInfraResponse", "searchSoundCloud", "generatePollinationsImage",
   "getPollinationsDirectUrl"}

\* the required property of each options object
RequiredField(a) ==
  CASE a = "searchSoundCloud" -> "query"
    [] OTHER -> "prompt"

\* values given for a required input
InputValues ==
  {Undefined, Null, Str(<<>>), Str(<<" ">>), Str(<<" ", "\t">>), Str(<<"a">>),
   Str(U_threads), Str(U_other)}

\* queries around the length limit of blackboxAi
LongQueries ==
  {Str(Repeat(10000)), Str(Repeat(10001)),
   Str(<<" ">> \o Repeat(10000) \o <<"\t">>),
   Str(<<" ">> \o Repeat(10001))}

ArgsOf(a) ==
  IF a \in TakesOptions
    THEN {Undefined} \cup
         {Obj([n \in {RequiredField(a)} |-> v]) : v \in InputValues}
    ELSE InputValues \cup (IF a = "blackboxAi" THEN LongQueries ELSE {})

\* the required input as the caller gave it
RequiredInput(a, x) ==
  IF a \in TakesOptions
    THEN (IF x.t = "object" THEN Lookup(x, RequiredField(a)) ELSE Undefined)
    ELSE x

Caught(e)   == [t |-> "catch", error |-> e]
Raised(e)   == [t |-> "throw", error |-> e]
Returned(v) == [t |-> "return", value |-> v]
ToRequest   == [t |-> "request"]

TypeError == Err("TypeError", <<>>)

\* threads(url, options = {}): the path up to the request
ThreadsEntry(url) ==
  LET v == ValidateRequiredParams(Obj([url |-> url]), <<"url">>) IN
  IF v.t = "throw" THEN Caught(v.error)
  ELSE IF url.t # "string" THEN Caught(TypeError)
  ELSE LET sanitizedUrl == Trim(url.s) IN
       IF ~IsValidUrl(sanitizedUrl)
         THEN Returned(CreateErrorResponse(Str(T_InvalidUrlFormat),
                Ctx(<<[k |-> K_url, v |-> Str(sanitizedUrl)]>>)))
       ELSE IF ~Includes(ExtractDomain(sanitizedUrl), T_threadsNet)
         THEN Returned(CreateErrorResponse(Str(T_MustBeThreads),
                Ctx(<<[k |-> K_domain, v |-> Str(ExtractDomain(sanitizedUrl))],
                      [k |-> K_url, v |-> Str(sanitizedUrl)]>>)))
       ELSE ToRequest

\* blackboxAi(query, options = {})
BlackboxEntry(query) ==
  LET v == ValidateRequiredParams(Obj([query |-> query]), <<"query">>) IN
  IF v.t = "throw" THEN Caught(v.error)
  ELSE IF query.t # "string" THEN Caught(TypeError)
  ELSE LET sanitizedQuery == Trim(query.s) IN
       IF Len(sanitizedQuery) = 0
         THEN Returned(CreateErrorResponse(Str(T_QueryEmpty),
                Ctx(<<[k |-> K_query, v |-> query]>>)))
       ELSE IF Len(sanitizedQuery) > MaxQueryLength
         THEN Returned(CreateErrorResponse(Str(T_QueryTooLong),
                Ctx(<<[k |-> K_queryLength, v |-> Num(Len(sanitizedQuery))]>>)))
       ELSE ToRequest

\* pinterest(query, options?)
PinterestEntry(query) ==
  LET v == ValidateRequiredParams(Obj([query |-> query]), <<"query">>) IN
  IF v.t = "throw" THEN Caught(v.error) ELSE ToRequest

\* generateDeepInfraResponse(options) and generatePollinationsImage(options):
\* validateRequiredParams(options, ['prompt']) inside the try
PromptEntry(opts) ==
  LET v == ValidateRequiredParams(opts, <<"prompt">>) IN
  IF v.t = "throw" THEN Caught(v.error) ELSE ToRequest

\* searchSoundCloud(options): options is destructured before the try
SoundCloudEntry(opts) ==
  IF opts.t # "object" THEN Raised(TypeError)
  ELSE LET v == ValidateRequiredParams(opts, <<"query">>) IN
       IF v.t = "throw" THEN Caught(v.error) ELSE ToRequest

\* getPollinationsDirectUrl(options): no try block, returns a string
DirectUrlEntry(opts) ==
  LET v == ValidateRequiredParams(opts, <<"prompt">>) IN
  IF v.t = "throw" THEN Raised(v.error)
  ELSE LET prompt == Lookup(opts, "prompt") IN
       Returned(Str(POLLINATIONS_BASE_URL
                      \o EncodeURIComponent(IF prompt.t = "string" THEN prompt.s ELSE <<>>)
                      \o T_nologo))

\* ytmp3cc.download(youtubeUrl, format = "mp3"): no validation; getYoutubeId
\* hands youtubeUrl to fetch, which rejects a value that is no URL before
\* any request is made; getYoutubeId rethrows that as an Error whose message
\* starts with "Network error while getting video ID: "
Ytmp3ccEntry(youtubeUrl) ==
  IF youtubeUrl.t = "string" /\ IsValidUrl(Trim(youtubeUrl.s))
    THEN ToRequest
    ELSE Caught(Err("Error", T_VideoIdError))

EntryOf(a, x) ==
  CASE a = "threads" -> ThreadsEntry(x)
    [] a = "blackboxAi" -> BlackboxEntry(x)
    [] a = "pinterest" -> PinterestEntry(x)
    [] a = "generateDeepInfraResponse" -> PromptEntry(x)
    [] a = "generatePollinationsImage" -> PromptEntry(x)
    [] a = "searchSoundCloud" -> SoundCloudEntry(x)
    [] a = "getPollinationsDirectUrl" -> DirectUrlEntry(x)
    [] a = "ytmp3cc.download" -> Ytmp3ccEntry(x)

KindProp(k) == [k |-> K_type, v |-> Str(KindText(k))]
ServiceCtx(props) == [k |-> K_context, v |-> Ctx(props)]

\* the context object each catch block builds; building it can itself throw
CatchContext(a, x) ==
  CASE a = "threads" ->
         \* url.substring(0, 100)
         IF x.t # "string" THEN Raised(TypeError)
         ELSE Returned(Ctx(<<[k |-> K_url, v |-> Str(Substring0(x.s, 100))],
                             [k |-> K_options, v |-> Ctx(<<>>)]>>))
    [] a = "blackboxAi" ->
         \* query?.substring(0, 100)
         Returned(Ctx(<<[k |-> K_query, v |-> IF x.t = "string" THEN Str(Substring0(x.s, 100)) ELSE Undefined],
                        [k |-> K_options, v |-> Ctx(<<>>)]>>))
    [] a = "pinterest" ->
         Returned(Ctx(<<KindProp("NETWORK_ERROR"),
                        ServiceCtx(<<[k |-> K_query, v |-> x]>>)>>))
    [] a = "generateDeepInfraResponse" ->
         \* model: options.model
         IF x.t # "object" THEN Raised(TypeError)
         ELSE Returned(Ctx(<<KindProp("API_ERROR"),
                             ServiceCtx(<<[k |-> K_service, v |-> Str(T_DeepInfraAI)],
                                          [k |-> K_model, v |-> Undefined]>>)>>))
    [] a = "generatePollinationsImage" ->
         Returned(Ctx(<<KindProp("IMAGE_GENERATION_ERROR"),
                        ServiceCtx(<<[k |-> K_service, v |-> Str(T_Pollinations)]>>)>>))
    [] a = "searchSoundCloud" ->
         Returned(Ctx(<<KindProp("API_ERROR"),
                        ServiceCtx(<<[k |-> K_service, v |-> Str(T_SoundCloud)],
                                     [k |-> K_query, v |-> Lookup(x, "query")],
                                     [k |-> K_clientId, v |-> Str(T_null)]>>)>>))
    [] a = "ytmp3cc.download" ->
         Returned(Ctx(<<KindProp("API_ERROR"),
                        ServiceCtx(<<[k |-> K_service, v |-> Str(T_ytmp3cc)],
                                     [k |-> K_youtubeUrl, v |-> x],
                                     [k |-> K_format, v |-> Str(T_mp3)]>>)>>))

\* the catch block: return createErrorResponse(error, context)
CatchOf(a, x, e) ==
  LET c == CatchContext(a, x) IN
  IF c.t = "throw" THEN c ELSE CreateErrorResponse(e, c.value)

\* what a call has ended with after an entry or request step
Ended(a, x, step) ==
  CASE step.t = "return" -> step.value
    [] step.t = "throw"  -> step
    [] step.t = "catch"  -> CatchOf(a, x, step.error)

InitAdapter ==
  /\ pc = "entry"
  /\ adapter \in Adapters
  /\ arg \in ArgsOf(adapter)
  /\ netCount = 0
  /\ ret = Undefined
  /\ IdleReq /\ IdleVal /\ IdleEnv
  /\ IdleCon

\* the synchronous start of the call, up to its first request or its end
Enter ==
  /\ pc = "entry"
  /\ LET step == EntryOf(adapter, arg) IN
       IF step.t = "request"
         THEN pc' = "request" /\ UNCHANGED ret
         ELSE pc' = "done" /\ ret' = Ended(adapter, arg, step)
  /\ UNCHANGED <<adapter, arg, netCount>>
  /\ UNCHANGED <<reqVars, valVars, envVars>>
  /\ UNCHANGED conVars

\* a request resolves and another one follows
RequestMore ==
  /\ pc = "request"
  /\ netCount + 1 < MaxRequests
  /\ netCount' = netCount + 1
  /\ UNCHANGED <<pc, adapter, arg, ret>>
  /\ UNCHANGED <<reqVars, valVars, envVars>>
  /\ UNCHANGED conVars

\* the last request resolves: a usable payload gives the success envelope, an
\* unusable one an error envelope built from a message string
RequestResolves ==
  /\ pc = "request"
  /\ netCount' = netCount + 1
  /\ \E usable \in BOOLEAN :
       ret' = IF usable
                THEN CreateSuccessResponse(Obj([url |-> Str(U_other)]))
                ELSE CreateErrorResponse(Str(T_InvalidResponse), Ctx(<<KindProp("INVALID_RESPONSE")>>))
  /\ pc' = "done"
  /\ UNCHANGED <<adapter, arg>>
  /\ UNCHANGED <<reqVars, valVars, envVars>>
  /\ UNCHANGED conVars

\* a request (or the parsing of its response) throws inside the try block
RequestThrows ==
  /\ pc = "request"
  /\ netCount' = netCount + 1
  /\ \E e \in {Err("AxiosError", T_NetworkError), TypeError} :
       ret' = CatchOf(adapter, arg, e)
  /\ pc' = "done"
  /\ UNCHANGED <<adapter, arg>>
  /\ UNCHANGED <<reqVars, valVars, envVars>>
  /\ UNCHANGED conVars

NextAdapter == Enter \/ RequestMore \/ RequestResolves \/ RequestThrows

SpecAdapter == InitAdapter /\ [][NextAdapter]_vars

(***************************************************************************)
(* makeRequest                                                             *)
(***************************************************************************)
InitRequest ==
  /\ pc = "loop"
  /\ options \in [retries : RetriesInputs, retryDelay : RetryDelayInputs]
  /\ retries = OrDefault(options.retries, DefaultRetries)
  /\ retryDelay = OrDefault(options.retryDelay, DefaultRetryDelay)
  /\ attempt = 0
  /\ lastError = Undefined
  /\ calls = <<>> /\ sleeps = <<>> /\ trace = <<>>
  /\ result = Undefined
  /\ IdleVal /\ IdleEnv /\ IdleAd
  /\ IdleCon

\* the error object of the attempt with index i
ErrorOf(i, o) ==
  [t |-> "error", at |-> i, isAxios |-> o.isAxios, hasResponse |-> o.hasResponse,
   status |-> o.status]

\* the delay before the retry that follows the failed attempt with index i
BackoffExponential(delay, i) == delay * (2 ^ i)
Backoff(delay, i) == delay * (i + 1)

\* the condition of the for loop
LoopCondStrict(i, n) == i < n
LoopCond(i, n) == i <= n

\* "if this is the last attempt"
IsLastAttemptAlways(i, n) == TRUE
IsLastAttempt(i, n) == i = n

\* lastError = error as Error
KeepFirst(prev, e) == IF prev = Undefined THEN e ELSE prev
Remember(prev, e) == e

\* one pass of the loop body up to its next suspension: the axios call and
\* the handling of its outcome
Attempt ==
  /\ pc = "loop"
  /\ LoopCond(attempt, retries)
  /\ \E o \in Outcomes :
       /\ calls' = Append(calls, o)
       /\ trace' = Append(trace, "call")
       /\ IF o.ok
            THEN /\ result' = [t |-> "response", at |-> attempt, status |-> o.status]
                 /\ pc' = "returned"
                 /\ UNCHANGED lastError
            ELSE /\ lastError' = Remember(lastError, ErrorOf(attempt, o))
                 /\ IF NonRetryable(o)
                      THEN /\ result' = ErrorOf(attempt, o)
                           /\ pc' = "thrown"
                      ELSE IF IsLastAttempt(attempt, retries)
                        THEN /\ result' = lastError'
                             /\ pc' = "thrown"
                        ELSE /\ pc' = "sleep"
                             /\ UNCHANGED result
  /\ UNCHANGED <<options, retries, retryDelay, attempt, sleeps>>
  /\ UNCHANGED <<valVars, envVars, adVars>>
  /\ UNCHANGED conVars

\* await sleep(retryDelay * (attempt + 1)), then attempt++
Sleep ==
  /\ pc = "sleep"
  /\ sleeps' = Append(sleeps, Backoff(retryDelay, attempt))
  /\ trace' = Append(trace, "sleep")
  /\ attempt' = attempt + 1
  /\ pc' = "loop"
  /\ UNCHANGED <<options, retries, retryDelay, lastError, calls, result>>
  /\ UNCHANGED <<valVars, envVars, adVars>>
  /\ UNCHANGED conVars

\* the loop condition fails without the body having returned or thrown:
\* the throw lastError after the loop
LoopExit ==
  /\ pc = "loop"
  /\ ~LoopCond(attempt, retries)
  /\ result' = lastError
  /\ pc' = "thrown"
  /\ UNCHANGED <<options, retries, retryDelay, attempt, lastError, calls, sleeps, trace>>
  /\ UNCHANGED <<valVars, envVars, adVars>>
  /\ UNCHANGED conVars

NextRequest == Attempt \/ Sleep \/ LoopExit

SpecRequest == InitRequest /\ [][NextRequest]_vars

(***************************************************************************)
(* Scraper functions together with the transport they call                 *)
(***************************************************************************)
T_RequestFailed == <<"R", "e", "q", "u", "e", "s", "t", " ", "f", "a", "i", "l", "e", "d", " ", "w", "i", "t", "h", " ", "s", "t", "a", "t", "u", "s", " ", "c", "o", "d", "e", " ">>
T_BlackboxInvalid == <<"I", "n", "v", "a", "l", "i", "d", " ", "r", "e", "s", "p", "o", "n", "s", "e", " ", "f", "o", "r", "m", "a", "t", " ", "f", "r", "o", "m", " ", "B", "l", "a", "c", "k", "B", "o", "x", " ", "A", "I">>
T_NoDownloadLink == <<"F", "a", "i", "l", "e", "d", " ", "t", "o", " ", "g", "e", "t", " ", "d", "o", "w", "n", "l", "o", "a", "d", " ", "l", "i", "n", "k">>
T_RequestTimeout == <<"R", "e", "q", "u", "e", "s", "t", " ", "t", "i", "m", "e", "o", "u", "t">>
T_ServerMessage == <<"q", "u", "o", "t", "a", " ", "e", "x", "c", "e", "e", "d", "e", "d">>
T_UnknownTitle == <<"U", "n", "k", "n", "o", "w", "n", " ", "T", "i", "t", "l", "e">>
T_object == <<"o", "b", "j", "e", "c", "t">>
T_TimeZoneDB == <<"T", "i", "m", "e", "Z", "o", "n", "e", "D", "B">>
T_DefaultLat == <<"-", "6", ".", "1", "8", "1", "8">>
T_DefaultLon == <<"1", "0", "6", ".", "8", "2", "2", "3">>
K_responseType == <<"r", "e", "s", "p", "o", "n", "s", "e", "T", "y", "p", "e">>
K_status == <<"s", "t", "a", "t", "u", "s">>
K_lat == <<"l", "a", "t">>
K_lon == <<"l", "o", "n">>

\* scraper functions of this part: blackboxAi awaits makeRequest, Ytdl.mp3
\* awaits axios(config) and WeatherMaster.getTimeZoneDB awaits axios.get
Requesters == {"blackboxAi", "Ytdl.mp3", "WeatherMaster.getTimeZoneDB"}

UsesMakeRequest(a) == a = "blackboxAi"

\* response.data of a successful request
ResponseData == {Str(<<"a">>), Obj([link |-> Str(U_other)]), Null}

\* the argument each function is called with (a usable one)
RequesterArg(a) ==
  CASE a = "blackboxAi" -> Str(<<"a">>)
    [] a = "Ytdl.mp3" -> Str(U_other)
    [] OTHER -> Undefined

\* the Error object of a failed request, with axios' message for it
AsError(e) ==
  IF e = Undefined THEN Undefined
  ELSE Err(IF e.isAxios THEN "AxiosError" ELSE "Error",
           IF e.hasResponse THEN T_RequestFailed \o Digits(e.status) ELSE T_NetworkError)

\* what the function returns for the response of a successful request
OnResponse(a, data) ==
  CASE a = "blackboxAi" ->
         IF data.t = "string" /\ data.s # <<>>
           THEN CreateSuccessResponse(Obj([response |-> data]))
           ELSE CreateErrorResponse(Str(T_BlackboxInvalid),
                  Ctx(<<[k |-> K_responseType, v |-> Str(T_object)],
                        [k |-> K_status, v |-> Num(200)]>>))
    [] a = "Ytdl.mp3" ->
         IF data.t = "object"
           THEN CreateSuccessResponse(
                  Obj([title |-> Str(T_UnknownTitle), downloadUrl |-> Lookup(data, "link"),
                       type |-> options]))
           ELSE CreateErrorResponse(Str(T_NoDownloadLink), Ctx(<<KindProp("API_ERROR")>>))
    [] OTHER -> CreateSuccessResponse(data)

\* what the catch block of the function returns for a caught value;
\* aborted: the request ran into its timeout (code ECONNABORTED);
\* serverMsg: the error response carried a message of its own
OnCatch(a, x, e, aborted, serverMsg) ==
  CASE a = "blackboxAi" -> CatchOf(a, x, AsError(e))
    [] a = "Ytdl.mp3" ->
         IF e.isAxios /\ aborted
           THEN CreateErrorResponse(Str(T_RequestTimeout), Ctx(<<KindProp("NETWORK_ERROR")>>))
           ELSE CreateErrorResponse(
                  Str(IF serverMsg THEN T_ServerMessage ELSE AsError(e).message),
                  Ctx(<<KindProp("API_ERROR")>>))
    [] OTHER ->
         CreateErrorResponse(AsError(e),
           Ctx(<<ServiceCtx(<<[k |-> K_service, v |-> Str(T_TimeZoneDB)],
                              [k |-> K_lat, v |-> Str(T_DefaultLat)],
                              [k |-> K_lon, v |-> Str(T_DefaultLon)]>>)>>))

InitTransport ==
  /\ adapter \in Requesters
  /\ arg = RequesterArg(adapter)
  /\ dataIn \in ResponseData
  /\ IF UsesMakeRequest(adapter)
       THEN /\ pc = "loop"
            /\ options \in [retries : RetriesInputs, retryDelay : {Undefined, Num(7)}]
            /\ retries = OrDefault(options.retries, DefaultRetries)
            /\ retryDelay = OrDefault(options.retryDelay, DefaultRetryDelay)
       ELSE /\ pc = "direct"
            /\ options = Undefined /\ retries = 0 /\ retryDelay = 0
  /\ attempt = 0
  /\ lastError = Undefined
  /\ calls = <<>> /\ sleeps = <<>> /\ trace = <<>>
  /\ result = Undefined
  /\ netCount = 0 /\ ret = Undefined
  /\ errorIn = Undefined /\ contextIn = Undefined /\ envelope = Undefined
  /\ IdleVal
  /\ IdleCon

\* await axios(config) / axios.get(url, ...) inside the function's own try
DirectRequest ==
  /\ pc = "direct"
  /\ \E o \in Outcomes :
       /\ calls' = Append(calls, o)
       /\ trace' = Append(trace, "call")
       /\ IF o.ok
            THEN ret' = OnResponse(adapter, dataIn)
            ELSE \E aborted \in {b \in BOOLEAN : b => ~o.hasResponse},
                    serverMsg \in {b \in BOOLEAN : b => o.hasResponse} :
                   ret' = OnCatch(adapter, arg, ErrorOf(0, o), aborted, serverMsg)
  /\ netCount' = netCount + 1
  /\ pc' = "done"
  /\ UNCHANGED <<options, retries, retryDelay, attempt, lastError, sleeps, result>>
  /\ UNCHANGED <<adapter, arg>>
  /\ UNCHANGED <<valVars, envVars>>
  /\ UNCHANGED conVars

\* makeRequest has returned or thrown: the rest of the function
AfterMakeRequest ==
  /\ pc \in {"returned", "thrown"}
  /\ adapter \in Requesters
  /\ ret' = IF pc = "returned"
              THEN OnResponse(adapter, dataIn)
              ELSE OnCatch(adapter, arg, result, FALSE, FALSE)
  /\ netCount' = Len(calls)
  /\ pc' = "done"
  /\ UNCHANGED <<adapter, arg>>
  /\ UNCHANGED <<reqVars, valVars, envVars>>
  /\ UNCHANGED conVars

NextTransport == Attempt \/ Sleep \/ LoopExit \/ DirectRequest \/ AfterMakeRequest

SpecTransport == InitTransport /\ [][NextTransport]_vars

(***************************************************************************)
(* generatePollinationsImage: concurrent calls and the temporary file      *)
(***************************************************************************)
T_ENOENT == <<"E", "N", "O", "E", "N", "T", ":", " ", "n", "o", " ", "s", "u", "c", "h", " ", "f", "i", "l", "e", " ", "o", "r", " ", "d", "i", "r", "e", "c", "t", "o", "r", "y">>
T_WriteFailed == <<"w", "r", "i", "t", "e", " ", "f", "a", "i", "l", "e", "d">>

Calls == 1 .. NumCalls

\* Date.now(), in milliseconds since the first call
Times == 0 .. MaxClock

Absent == [t |-> "absent"]

\* a file holding the image bytes written by the calls in writers
FileOf(writers) == [t |-> "file", writers |-> writers]

\* the state of a call that has not got its image yet
FreshCall ==
  [pc |-> "download", tempPath |-> Undefined, open |-> FALSE, sent |-> Undefined,
   ret |-> Undefined]

\* the catch block of generatePollinationsImage
PollinationsCatch(e) ==
  CatchOf("generatePollinationsImage", Obj([prompt |-> Str(<<"a">>)]), e)

\* path.join(os.tmpdir(), `pollinations_${Date.now()}.jpg`): the path is
\* made from the millisecond alone, whichever call makes it
TempPath(now, i) == Num(now)

InitPollinations ==
  /\ pc = "concurrent"
  /\ inv = [i \in Calls |-> FreshCall]
  /\ world = [t |-> "world", now |-> 0, files |-> [f \in {} |-> Absent]]
  /\ IdleReq /\ IdleVal /\ IdleEnv /\ IdleAd

FileAt(path) == IF path \in DOMAIN world.files THEN world.files[path] ELSE Absent

WithFile(path, file) ==
  [f \in (DOMAIN world.files) \cup {path} |-> IF f = path THEN file ELSE FileAt(f)]

WithoutFile(path) ==
  [f \in (DOMAIN world.files) \ {path} |-> world.files[f]]

\* a millisecond passes
Tick ==
  /\ pc = "concurrent"
  /\ world.now < MaxClock
  /\ world' = [world EXCEPT !.now = @ + 1]
  /\ UNCHANGED <<pc, inv>>
  /\ UNCHANGED <<reqVars, valVars, envVars, adVars>>

\* the image request (makeRequest) of call i fails: catch
DownloadFails(i) ==
  /\ pc = "concurrent"
  /\ inv[i].pc = "download"
  /\ inv' = [inv EXCEPT ![i].pc = "done",
                        ![i].ret = PollinationsCatch(Err("AxiosError", T_NetworkError))]
  /\ UNCHANGED <<pc, world>>
  /\ UNCHANGED <<reqVars, valVars, envVars, adVars>>

\* the image request of call i resolves: tempPath is made from Date.now(),
\* createWriteStream creates the file or truncates the one that is there,
\* the response is piped into it
DownloadDone(i) ==
  /\ pc = "concurrent"
  /\ inv[i].pc = "download"
  /\ LET tempPath == TempPath(world.now, i) IN
       /\ inv' = [inv EXCEPT ![i].pc = "writing", ![i].tempPath = tempPath, ![i].open = TRUE]
       /\ world' = [world EXCEPT !.files = WithFile(tempPath, FileOf({}))]
  /\ UNCHANGED pc
  /\ UNCHANGED <<reqVars, valVars, envVars, adVars>>

\* the write stream of call i emits 'finish': its bytes are in the file it
\* opened (a file unlinked meanwhile keeps no name)
WriteFinish(i) ==
  /\ pc = "concurrent"
  /\ inv[i].pc = "writing"
  /\ inv' = [inv EXCEPT ![i].pc = "written", ![i].open = FALSE]
  /\ world' = IF inv[i].open /\ FileAt(inv[i].tempPath) # Absent
                THEN [world EXCEPT !.files =
                        WithFile(inv[i].tempPath,
                                 FileOf(FileAt(inv[i].tempPath).writers \cup {i}))]
                ELSE world
  /\ UNCHANGED pc
  /\ UNCHANGED <<reqVars, valVars, envVars, adVars>>

\* the write stream of call i emits 'error': the promise rejects, catch
WriteFails(i) ==
  /\ pc = "concurrent"
  /\ inv[i].pc = "writing"
  /\ inv' = [inv EXCEPT ![i].pc = "done", ![i].open = FALSE,
                        ![i].ret = PollinationsCatch(Err("Error", T_WriteFailed))]
  /\ UNCHANGED <<pc, world>>
  /\ UNCHANGED <<reqVars, valVars, envVars, adVars>>

\* the upload request of call i reads the file named tempPath
UploadReads(i) ==
  /\ pc = "concurrent"
  /\ inv[i].pc = "written"
  /\ inv' = IF FileAt(inv[i].tempPath) = Absent
              THEN [inv EXCEPT ![i].pc = "done",
                               ![i].ret = PollinationsCatch(Err("Error", T_ENOENT))]
              ELSE [inv EXCEPT ![i].pc = "uploading",
                               ![i].sent = FileAt(inv[i].tempPath)]
  /\ UNCHANGED <<pc, world>>
  /\ UNCHANGED <<reqVars, valVars, envVars, adVars>>

\* the upload request of call i fails: catch
UploadFails(i) ==
  /\ pc = "concurrent"
  /\ inv[i].pc = "uploading"
  /\ inv' = [inv EXCEPT ![i].pc = "done",
                        ![i].ret = PollinationsCatch(Err("AxiosError", T_NetworkError))]
  /\ UNCHANGED <<pc, world>>
  /\ UNCHANGED <<reqVars, valVars, envVars, adVars>>

\* the upload request of call i resolves: fs.unlinkSync(tempPath), which
\* throws when the file is gone, then the success response
UploadDone(i) ==
  /\ pc = "concurrent"
  /\ inv[i].pc = "uploading"
  /\ IF FileAt(inv[i].tempPath) = Absent
       THEN /\ inv' = [inv EXCEPT ![i].pc = "done",
                                  ![i].ret = PollinationsCatch(Err("Error", T_ENOENT))]
            /\ UNCHANGED world
       ELSE /\ inv' = [j \in Calls |->
                         IF j = i
                           THEN [inv[i] EXCEPT !.pc = "done",
                                               !.ret = CreateSuccessResponse(inv[i].sent)]
                         ELSE IF inv[j].tempPath = inv[i].tempPath
                           THEN [inv[j] EXCEPT !.open = FALSE]
                         ELSE inv[j]]
            /\ world' = [world EXCEPT !.files = WithoutFile(inv[i].tempPath)]
  /\ UNCHANGED pc
  /\ UNCHANGED <<reqVars, valVars, envVars, adVars>>

NextPollinations ==
  \/ Tick
  \/ \E i \in Calls :
       \/ DownloadFails(i) \/ DownloadDone(i)
       \/ WriteFinish(i) \/ WriteFails(i)
       \/ UploadReads(i) \/ UploadFails(i) \/ UploadDone(i)

SpecPollinations == InitPollinations /\ [][NextPollinations]_vars

(***************************************************************************)
(* makeRequest: the request configuration it builds                        *)
(***************************************************************************)
T_userAgent == <<"M", "o", "z", "i", "l", "l", "a", "/", "5", ".", "0", " ", "(", "L", "i", "n", "u", "x", ";", " ", "A", "n", "d", "r", "o", "i", "d", " ", "1", "0", ";", " ", "K", ")", " ", "A", "p", "p", "l", "e", "W", "e", "b", "K", "i", "t", "/", "5", "3", "7", ".", "3", "6", " ", "(", "K", "H", "T", "M", "L", ",", " ", "l", "i", "k", "e", " ", "G", "e", "c", "k", "o", ")", " ", "C", "h", "r", "o", "m", "e", "/", "1", "3", "7", ".", "0", ".", "0", ".", "0", " ", "M", "o", "b", "i", "l", "e", " ", "S", "a", "f", "a", "r", "i", "/", "5", "3", "7", ".", "3", "6">>
T_acceptAll == <<"*", "/", "*">>
T_acceptEncoding == <<"g", "z", "i", "p", ",", " ", "d", "e", "f", "l", "a", "t", "e", ",", " ", "b", "r">>
T_acceptLanguage == <<"i", "d", "-", "I", "D", ",", "i", "d", ";", "q", "=", "0", ".", "9", ",", "e", "n", ";", "q", "=", "0", ".", "8">>

\* the headers makeRequest writes before spreading the caller's
DefaultHeaders ==
  [n \in {"User-Agent", "Accept", "Accept-Encoding", "Accept-Language"} |->
     CASE n = "User-Agent" -> Str(T_userAgent)
       [] n = "Accept" -> Str(T_acceptAll)
       [] n = "Accept-Encoding" -> Str(T_acceptEncoding)
       [] n = "Accept-Language" -> Str(T_acceptLanguage)]

\* { ...base, ...over }: a later own property replaces an earlier one;
\* spreading undefined or null adds nothing
SpreadKeepBase(base, over) ==
  IF over \in {Undefined, Null} THEN base
  ELSE [n \in (DOMAIN base) \cup (DOMAIN over.f) |->
          IF n \in DOMAIN base THEN base[n] ELSE over.f[n]]
Spread(base, over) ==
  IF over \in {Undefined, Null} THEN base
  ELSE [n \in (DOMAIN base) \cup (DOMAIN over.f) |->
          IF n \in DOMAIN over.f THEN over.f[n] ELSE base[n]]

\* header names a caller gives: one that is a default name, one that is not
CallerHeaderNames == {"Accept", "X-Key"}

\* header objects a caller gives, all values being v
HeaderObjects(v) ==
  {Undefined} \cup {Obj([n \in N |-> v]) : N \in SUBSET CallerHeaderNames}

\* options: absent ({} by default), or an object whose properties may be
\* undefined
OptionsInputs ==
  {Undefined}
    \cup [timeout : {Undefined, Num(5000)}, retries : {Undefined, Num(0), Num(-1)},
          retryDelay : {Undefined, Num(7)}, headers : {Undefined}]
    \cup [timeout : {Undefined}, retries : {Num(0)},
          retryDelay : {Undefined}, headers : HeaderObjects(Str(<<"o">>))]

\* config: the part of the AxiosRequestConfig that makeRequest overrides
ConfigInputs ==
  [t : {"config"}, timeout : {Undefined, Num(99)}, headers : HeaderObjects(Str(<<"c">>))]

\* a property of options after "options: RequestConfig = {}"
OptionOf(opts, name) == IF opts = Undefined THEN Undefined ELSE opts[name]

\* const { headers = {} } = options
HeadersOption(opts) ==
  IF OptionOf(opts, "headers") = Undefined THEN Obj(<<>>) ELSE OptionOf(opts, "headers")

\* requestConfig = { ...config, timeout, headers: {defaults, ...headers,
\* ...config.headers} }
RequestConfigOf(config, opts) ==
  [t |-> "requestConfig",
   timeout |-> Num(OrDefault(OptionOf(opts, "timeout"), DefaultTimeout)),
   headers |-> Obj(Spread(Spread(DefaultHeaders, HeadersOption(opts)), config.headers))]

InitConfig ==
  /\ pc = "config"
  /\ options \in OptionsInputs
  /\ arg \in ConfigInputs
  /\ retries = 0 /\ retryDelay = 0 /\ attempt = 0
  /\ lastError = Undefined
  /\ calls = <<>> /\ sleeps = <<>> /\ trace = <<>>
  /\ result = Undefined
  /\ adapter = "none" /\ netCount = 0 /\ ret = Undefined
  /\ IdleVal /\ IdleEnv /\ IdleCon

\* makeRequest up to its loop: the defaults and requestConfig
BuildConfig ==
  /\ pc = "config"
  /\ retries' = OrDefault(OptionOf(options, "retries"), DefaultRetries)
  /\ retryDelay' = OrDefault(OptionOf(options, "retryDelay"), DefaultRetryDelay)
  /\ ret' = RequestConfigOf(arg, options)
  /\ pc' = "loop"
  /\ UNCHANGED <<options, attempt, lastError, calls, sleeps, trace, result>>
  /\ UNCHANGED <<adapter, arg, netCount>>
  /\ UNCHANGED <<valVars, envVars, conVars>>

NextConfig == BuildConfig \/ Attempt \/ Sleep \/ LoopExit

SpecConfig == InitConfig /\ [][NextConfig]_vars

(***************************************************************************)
(* blackboxAi: the handling of the response body                           *)
(***************************************************************************)
Delimiter == <<"$", "~", "~", "~", "$">>
J_oneSource == <<"[", "{", "\"", "l", "i", "n", "k", "\"", ":", "\"", "l", "\"", ",", "\"", "t", "i", "t", "l", "e", "\"", ":", "\"", "t", "\"", "}", "]">>
J_numbers == <<"[", "1", "]">>
J_object == <<"{", "}">>
T_FailedToParse == <<"F", "a", "i", "l", "e", "d", " ", "t", "o", " ", "p", "a", "r", "s", "e", " ", "B", "l", "a", "c", "k", "B", "o", "x", " ", "A", "I", " ", "r", "e", "s", "p", "o", "n", "s", "e">>
T_ellipsis == <<".", ".", ".">>
K_rawResponse == <<"r", "a", "w", "R", "e", "s", "p", "o", "n", "s", "e">>

\* String.prototype.split(d): the pieces of s between occurrences of d
RECURSIVE Split(_, _)
Split(s, d) ==
  LET at == {i \in 1 .. Len(s) - Len(d) + 1 : SubSeq(s, i, i + Len(d) - 1) = d} IN
  IF at = {} THEN <<s>>
  ELSE LET first == CHOOSE i \in at : \A j \in at : i <= j IN
       <<SubSeq(s, 1, first - 1)>> \o Split(SubSeq(s, first + Len(d), Len(s)), d)

\* a JSON array, as the sequence of its elements
Arr(items) == [t |-> "array", items |-> items]

\* safeJsonParse on the texts the bodies are made of: white space around
\* the value is allowed, any other text is no JSON and gives null
SafeJsonParse(text) ==
  LET v == Trim(text) IN
  CASE v = J_oneSource -> Arr(<<Obj([link |-> Str(<<"l">>), title |-> Str(<<"t">>)])>>)
    [] v = J_numbers -> Arr(<<Num(1)>>)
    [] v = J_object -> Obj(<<>>)
    [] OTHER -> Null

\* the filter and map applied to the parsed sources
RECURSIVE ValidSources(_)
ValidSources(items) ==
  IF items = <<>> THEN <<>>
  ELSE LET x == items[1] IN
       (IF /\ x.t = "object"
           /\ Lookup(x, "link").t = "string"
           /\ Lookup(x, "title").t = "string"
          THEN <<Obj([link |-> Lookup(x, "link"), title |-> Lookup(x, "title"),
                      snippet |-> Str(<<>>), position |-> Num(0)])>>
          ELSE <<>>)
         \o ValidSources(Tail(items))

BlackBoxAIData(response, source) ==
  [t |-> "BlackBoxAIData", response |-> Str(response), source |-> source]

\* parseBlackBoxResponse: the parsed data, or null
ParseBlackBoxResponse(rawResponse) ==
  LET parsed == Split(rawResponse, Delimiter) IN
  IF Len(parsed) = 1
    THEN (IF Trim(parsed[1]) = <<>> THEN Null ELSE BlackBoxAIData(Trim(parsed[1]), <<>>))
  ELSE IF Len(parsed) >= 3
    THEN IF Trim(parsed[3]) = <<>> \/ parsed[2] = <<>> THEN Null
         ELSE LET sources == SafeJsonParse(parsed[2]) IN
              IF sources.t # "array" THEN BlackBoxAIData(Trim(parsed[3]), <<>>)
              ELSE BlackBoxAIData(Trim(parsed[3]), ValidSources(sources.items))
  ELSE Null

\* blackboxAi after makeRequest has resolved with a string body
OnBlackboxBody(body) ==
  IF body = <<>>
    THEN CreateErrorResponse(Str(T_BlackboxInvalid),
           Ctx(<<[k |-> K_responseType, v |-> Str(<<"s", "t", "r", "i", "n", "g">>)],
                 [k |-> K_status, v |-> Num(200)]>>))
  ELSE LET parsedData == ParseBlackBoxResponse(body) IN
       IF parsedData = Null
         THEN CreateErrorResponse(Str(T_FailedToParse),
                Ctx(<<[k |-> K_rawResponse, v |-> Str(Substring0(body, 100) \o T_ellipsis)]>>))
         ELSE CreateSuccessResponse(parsedData)

\* what response bodies are made of
Pieces == {Delimiter, <<"a">>, <<" ">>, J_oneSource, J_numbers, J_object}

Bodies == {Flatten(ps) : ps \in SeqsUpTo(Pieces, MaxPieces)}

InitParse ==
  /\ pc = "response"
  /\ dataIn \in {Str(b) : b \in Bodies}
  /\ errorIn = Undefined /\ contextIn = Undefined
  /\ envelope = Undefined
  /\ adapter = "blackboxAi" /\ arg = Str(<<"a">>) /\ netCount = 1 /\ ret = Undefined
  /\ IdleReq /\ IdleVal /\ IdleCon

HandleBody ==
  /\ pc = "response"
  /\ ret' = OnBlackboxBody(dataIn.s)
  /\ pc' = "done"
  /\ UNCHANGED <<adapter, arg, netCount>>
  /\ UNCHANGED <<reqVars, valVars, envVars, conVars>>

NextParse == HandleBody

SpecParse == InitParse /\ [][NextParse]_vars

(***************************************************************************)
(* Ytdl.mp4 and waitForDownloadUrl                                         *)
(***************************************************************************)
T_FailedToProceed == <<"F", "a", "i", "l", "e", "d", " ", "t", "o", " ", "p", "r", "o", "c", "e", "e", "d", " ", "d", "o", "w", "n", "l", "o", "a", "d">>
T_RemoteResponded == <<"R", "e", "m", "o", "t", "e", " ", "s", "e", "r", "v", "e", "r", " ", "r", "e", "s", "p", "o", "n", "d", "e", "d", " ", "w", "i", "t", "h", " ">>
T_PollTimeout == <<"T", "i", "m", "e", "o", "u", "t", ":", " ", "p", "l", "e", "a", "s", "e", " ", "t", "r", "y", " ", "a", "g", "a", "i", "n">>
T_mp4 == <<"m", "p", "4">>
T_q720 == <<"7", "2", "0">>

\* waitForDownloadUrl: the number of polls and the wait before each
maxAttempts == 40
PollDelay == 3000

\* statuses of a poll that axios rejects with a response
RefusedStatuses == {304, 404, 500}

\* pollError.response.status >= 400
AbortsPollingFrom500(status) == status >= 500
AbortsPolling(status) == status >= 400

\* what a poll can end with
PollOutcome(kind, status) == [kind |-> kind, status |-> status]

\* while (attempts < maxAttempts)
MayPollOnceMore(n) == n <= maxAttempts
MayPoll(n) == n < maxAttempts

\* the polls made so far that gave no download_url: answered without one,
\* or failed without aborting the polling
NoPolls == [none |-> 0, glitch |-> 0]

\* the catch of the inner try of Ytdl.mp4
PollingFailed(msg) == CreateErrorResponse(Str(msg), Ctx(<<KindProp("NETWORK_ERROR")>>))

\* the data of the success response of Ytdl.mp4 (quality "720")
Mp4Result(downloadUrl) ==
  Obj([title |-> Str(T_UnknownTitle), quality |-> Str(T_q720), type |-> Str(T_mp4),
       downloadUrl |-> Str(downloadUrl)])

\* Ytdl.mp4 called with a YouTube URL and a valid quality, at its try block
InitPoll ==
  /\ pc = "first"
  /\ adapter = "Ytdl.mp4" /\ arg = Str(U_other)
  /\ attempt = 0
  /\ calls = NoPolls
  /\ sleeps = <<>>
  /\ netCount = 0
  /\ result = Undefined /\ ret = Undefined
  /\ options = Undefined /\ retries = 0 /\ retryDelay = 0
  /\ lastError = Undefined /\ trace = <<>>
  /\ IdleVal /\ IdleEnv /\ IdleCon

\* the first request, which starts the conversion
FirstRequest ==
  /\ pc = "first"
  /\ \E o \in {"progress", "noProgress", "aborted", "failed"} :
       CASE o = "progress" -> pc' = "wait" /\ UNCHANGED ret
         [] o = "noProgress" ->
              /\ pc' = "done"
              /\ ret' = CreateErrorResponse(Str(T_FailedToProceed), Ctx(<<KindProp("API_ERROR")>>))
         [] o = "aborted" ->
              /\ pc' = "done"
              /\ ret' = CreateErrorResponse(Str(T_RequestTimeout), Ctx(<<KindProp("NETWORK_ERROR")>>))
         [] o = "failed" ->
              /\ pc' = "done"
              /\ ret' = CreateErrorResponse(Str(T_NetworkError), Ctx(<<KindProp("API_ERROR")>>))
  /\ UNCHANGED <<adapter, arg, netCount>>
  /\ UNCHANGED <<reqVars, valVars, envVars, conVars>>

\* the loop condition holds: await the 3 second timer
PollWait ==
  /\ pc = "wait"
  /\ MayPoll(attempt)
  /\ sleeps' = Append(sleeps, PollDelay)
  /\ pc' = "poll"
  /\ UNCHANGED <<options, retries, retryDelay, attempt, lastError, calls, trace, result>>
  /\ UNCHANGED adVars
  /\ UNCHANGED <<valVars, envVars, conVars>>

\* one poll is answered with a download_url: waitForDownloadUrl returns it
\* and Ytdl.mp4 returns the success response
PollGivesUrl ==
  /\ pc = "poll"
  /\ netCount' = netCount + 1
  /\ lastError' = PollOutcome("url", 200)
  /\ result' = Str(U_threads)
  /\ ret' = CreateSuccessResponse(Mp4Result(U_threads))
  /\ pc' = "done"
  /\ UNCHANGED <<options, retries, retryDelay, attempt, calls, sleeps, trace>>
  /\ UNCHANGED <<adapter, arg>>
  /\ UNCHANGED <<valVars, envVars, conVars>>

\* one poll is answered without a download_url, or fails without an HTTP
\* response or with a status that does not abort: attempts++
PollGivesNothing ==
  /\ pc = "poll"
  /\ netCount' = netCount + 1
  /\ \E o \in {PollOutcome("none", 200), PollOutcome("glitch", 0)}
              \cup {PollOutcome("status", n) : n \in RefusedStatuses} :
       /\ o.kind = "status" => ~AbortsPolling(o.status)
       /\ lastError' = o
       /\ calls' = [calls EXCEPT ![IF o.kind = "none" THEN "none" ELSE "glitch"] = @ + 1]
  /\ attempt' = attempt + 1
  /\ pc' = "wait"
  /\ UNCHANGED <<options, retries, retryDelay, sleeps, trace, result>>
  /\ UNCHANGED <<adapter, arg, ret>>
  /\ UNCHANGED <<valVars, envVars, conVars>>

\* one poll fails with an HTTP status >= 400: waitForDownloadUrl throws
PollRefused ==
  /\ pc = "poll"
  /\ netCount' = netCount + 1
  /\ \E status \in RefusedStatuses :
       /\ AbortsPolling(status)
       /\ lastError' = PollOutcome("status", status)
       /\ result' = Err("Error", T_RemoteResponded \o Digits(status))
       /\ ret' = PollingFailed(T_RemoteResponded \o Digits(status))
  /\ pc' = "done"
  /\ UNCHANGED <<options, retries, retryDelay, attempt, calls, sleeps, trace>>
  /\ UNCHANGED <<adapter, arg>>
  /\ UNCHANGED <<valVars, envVars, conVars>>

\* the loop condition fails: throw new Error("Timeout: please try again")
PollGivesUp ==
  /\ pc = "wait"
  /\ ~MayPoll(attempt)
  /\ result' = Err("Error", T_PollTimeout)
  /\ ret' = PollingFailed(T_PollTimeout)
  /\ pc' = "done"
  /\ UNCHANGED <<options, retries, retryDelay, attempt, lastError, calls, sleeps, trace>>
  /\ UNCHANGED <<adapter, arg, netCount>>
  /\ UNCHANGED <<valVars, envVars, conVars>>

NextPoll ==
  FirstRequest \/ PollWait \/ PollGivesUrl \/ PollGivesNothing \/ PollRefused \/ PollGivesUp

SpecPoll == InitPoll /\ [][NextPoll]_vars

(***************************************************************************)
(* generateLyrics                                                          *)
(***************************************************************************)
T_pop == <<"p", "o", "p">>
T_folk == <<"f", "o", "l", "k">>
T_polka == <<"p", "o", "l", "k", "a">>
T_happy == <<"h", "a", "p", "p", "y">>
T_nostalgic == <<"n", "o", "s", "t", "a", "l", "g", "i", "c">>
T_grumpy == <<"g", "r", "u", "m", "p", "y">>
T_verse_chorus == <<"v", "e", "r", "s", "e", "_", "c", "h", "o", "r", "u", "s">>
T_verse_chorus_bridge == <<"v", "e", "r", "s", "e", "_", "c", "h", "o", "r", "u", "s", "_", "b", "r", "i", "d", "g", "e">>
T_en == <<"e", "n">>
T_id == <<"i", "d">>
T_Untitled == <<"U", "n", "t", "i", "t", "l", "e", "d">>
T_InvalidGenre == <<"I", "n", "v", "a", "l", "i", "d", " ", "g", "e", "n", "r", "e", ".", " ", "A", "v", "a", "i", "l", "a", "b", "l", "e", ":", " ", "p", "o", "p", ",", " ", "r", "o", "c", "k", ",", " ", "f", "o", "l", "k", ",", " ", "r", "a", "p", ",", " ", "r", "n", "b", ",", " ", "j", "a", "z", "z", ",", " ", "c", "l", "a", "s", "s", "i", "c", "a", "l", ",", " ", "e", "l", "e", "c", "t", "r", "o", "n", "i", "c", ",", " ", "c", "o", "u", "n", "t", "r", "y", ",", " ", "b", "l", "u", "e", "s">>
T_InvalidMood == <<"I", "n", "v", "a", "l", "i", "d", " ", "m", "o", "o", "d", ".", " ", "A", "v", "a", "i", "l", "a", "b", "l", "e", ":", " ", "h", "a", "p", "p", "y", ",", " ", "s", "a", "d", ",", " ", "r", "o", "m", "a", "n", "t", "i", "c", ",", " ", "e", "n", "e", "r", "g", "e", "t", "i", "c", ",", " ", "p", "e", "a", "c", "e", "f", "u", "l", ",", " ", "m", "e", "l", "a", "n", "c", "h", "o", "l", "i", "c", ",", " ", "a", "n", "g", "r", "y", ",", " ", "h", "o", "p", "e", "f", "u", "l", ",", " ", "n", "o", "s", "t", "a", "l", "g", "i", "c", ",", " ", "u", "p", "l", "i", "f", "t", "i", "n", "g">>
T_LyricsNotFound == <<"L", "y", "r", "i", "c", "s", " ", "n", "o", "t", " ", "f", "o", "u", "n", "d", " ", "i", "n", " ", "A", "P", "I", " ", "r", "e", "s", "p", "o", "n", "s", "e", ".">>
T_LyricsGenerator == <<"L", "y", "r", "i", "c", "s", "G", "e", "n", "e", "r", "a", "t", "o", "r">>

\* LYRICS_CONFIG, for the keys the model passes
LYRICS_CONFIG ==
  [genre |-> (T_pop :> <<"P", "o", "p">>) @@ (T_folk :> <<"F", "o", "l", "k">>),
   mood |-> (T_happy :> <<"H", "a", "p", "p", "y">>) @@ (T_nostalgic :> <<"N", "o", "s", "t", "a", "l", "g", "i", "c">>),
   structure |-> (T_verse_chorus :> <<"V", "e", "r", "s", "e", " ", "+", " ", "C", "h", "o", "r", "u", "s">>)
                   @@ (T_verse_chorus_bridge :> <<"V", "e", "r", "s", "e", " ", "+", " ", "C", "h", "o", "r", "u", "s", " ", "+", " ", "B", "r", "i", "d", "g", "e">>),
   language |-> (T_en :> <<"E", "n", "g", "l", "i", "s", "h">>) @@ (T_id :> <<"I", "n", "d", "o", "n", "e", "s", "i", "a", "n">>)]

\* LYRICS_CONFIG.<group>[key]: the label, or undefined
LabelOf(group, key) ==
  IF key.t = "string" /\ key.s \in DOMAIN LYRICS_CONFIG[group]
    THEN Str(LYRICS_CONFIG[group][key.s])
    ELSE Undefined

\* the name validateRequiredParams is given by generateLyrics
LyricsRequired == <<"keyword">>

\* a destructuring default: the default replaces undefined only
Defaulted(v, d) == IF v = Undefined THEN d ELSE v

\* the options generateLyrics is called with: a non-empty topic, the other
\* documented keys given or left out, and possibly an undocumented keyword
LyricsOptions ==
  {Obj([topic |-> Str(<<"a">>), genre |-> g, mood |-> m, structure |-> s,
        language |-> l, keyword |-> k]) :
     g \in {Undefined, Str(T_folk), Str(T_polka)},
     m \in {Undefined, Str(T_nostalgic), Str(T_grumpy)},
     s \in {Undefined, Str(T_verse_chorus_bridge)},
     l \in {Undefined, Str(T_id)},
     k \in {Undefined, Str(<<"a">>)}}

\* response.data?.data of the API response
LyricsResponses ==
  {Undefined,
   Obj([title |-> Undefined, lyrics |-> Str(<<"a">>)]),
   Obj([title |-> Str(<<"a">>), lyrics |-> Str(<<"a", "a">>)]),
   Obj([title |-> Str(<<"a">>), lyrics |-> Undefined]),
   Obj([title |-> Str(<<"a">>), lyrics |-> Str(<<>>)])}

LyricsCatch(e) ==
  CreateErrorResponse(e,
    Ctx(<<KindProp("API_ERROR"),
          ServiceCtx(<<[k |-> K_service, v |-> Str(T_LyricsGenerator)]>>)>>))

\* generateLyrics up to its request
LyricsEntry(opts) ==
  LET v == ValidateRequiredParams(opts, LyricsRequired)
      genre == Defaulted(Lookup(opts, "genre"), Str(T_pop))
      mood == Defaulted(Lookup(opts, "mood"), Str(T_happy))
  IN IF v.t = "throw" THEN Returned(LyricsCatch(v.error))
     ELSE IF genre.s \notin DOMAIN LYRICS_CONFIG.genre
       THEN Returned(CreateErrorResponse(Str(T_InvalidGenre), Ctx(<<KindProp("INVALID_PARAMETER")>>)))
     ELSE IF mood.s \notin DOMAIN LYRICS_CONFIG.mood
       THEN Returned(CreateErrorResponse(Str(T_InvalidMood), Ctx(<<KindProp("INVALID_PARAMETER")>>)))
     ELSE ToRequest

\* generateLyrics after the response
LyricsResult(opts, data) ==
  LET d == IF data = Undefined THEN Obj([title |-> Undefined, lyrics |-> Undefined]) ELSE data
      title == Defaulted(Lookup(d, "title"), Str(T_Untitled))
      lyrics == Lookup(d, "lyrics")
  IN IF IsFalsy(lyrics)
       THEN CreateErrorResponse(Str(T_LyricsNotFound),
              Ctx(<<KindProp("NOT_FOUND"),
                    ServiceCtx(<<[k |-> K_service, v |-> Str(T_LyricsGenerator)]>>)>>))
       ELSE CreateSuccessResponse(
              Obj([title |-> title, lyrics |-> lyrics, topic |-> Lookup(opts, "topic"),
                   genre |-> LabelOf("genre", Defaulted(Lookup(opts, "genre"), Str(T_pop))),
                   mood |-> LabelOf("mood", Defaulted(Lookup(opts, "mood"), Str(T_happy))),
                   structure |-> LabelOf("structure",
                                   Defaulted(Lookup(opts, "structure"), Str(T_verse_chorus))),
                   language |-> LabelOf("language",
                                  Defaulted(Lookup(opts, "language"), Str(T_en)))]))

InitLyrics ==
  /\ pc = "entry"
  /\ adapter = "generateLyrics"
  /\ arg \in LyricsOptions
  /\ dataIn \in LyricsResponses
  /\ options = Undefined
  /\ retries = DefaultRetries /\ retryDelay = DefaultRetryDelay
  /\ attempt = 0
  /\ lastError = Undefined
  /\ calls = <<>> /\ sleeps = <<>> /\ trace = <<>>
  /\ result = Undefined
  /\ netCount = 0 /\ ret = Undefined
  /\ errorIn = Undefined /\ contextIn = Undefined /\ envelope = Undefined
  /\ IdleVal /\ IdleCon

\* the call up to makeRequest, or to the envelope it returns before it
LyricsEnter ==
  /\ pc = "entry"
  /\ adapter = "generateLyrics"
  /\ LET step == LyricsEntry(arg) IN
       IF step.t = "request"
         THEN pc' = "loop" /\ UNCHANGED ret
         ELSE pc' = "done" /\ ret' = step.value
  /\ UNCHANGED <<options, retries, retryDelay, attempt, lastError, calls, sleeps, trace, result>>
  /\ UNCHANGED <<adapter, arg, netCount>>
  /\ UNCHANGED <<valVars, envVars, conVars>>

\* makeRequest has returned or thrown
LyricsAfter ==
  /\ pc \in {"returned", "thrown"}
  /\ adapter = "generateLyrics"
  /\ ret' = IF pc = "returned" THEN LyricsResult(arg, dataIn) ELSE LyricsCatch(AsError(result))
  /\ netCount' = Len(calls)
  /\ pc' = "done"
  /\ UNCHANGED <<adapter, arg>>
  /\ UNCHANGED <<reqVars, valVars, envVars, conVars>>

NextLyrics == LyricsEnter \/ Attempt \/ Sleep \/ LyricsAfter

SpecLyrics == InitLyrics /\ [][NextLyrics]_vars

(***************************************************************************)
(* tiktok                                                                  *)
(***************************************************************************)
U_tiktok == <<"h", "t", "t", "p", "s", ":", "/", "/", "w", "w", "w", ".", "t", "i", "k", "t", "o", "k", ".", "c", "o", "m", "/", "@", "a", "/", "v", "i", "d", "e", "o", "/", "1">>
U_notTiktok == <<"h", "t", "t", "p", "s", ":", "/", "/", "n", "o", "t", "-", "a", "-", "v", "a", "l", "i", "d", "-", "u", "r", "l", ".", "c", "o", "m">>
T_TokenNotFound == <<"T", "o", "k", "e", "n", " ", "n", "o", "t", " ", "f", "o", "u", "n", "d", " ", "o", "n", " ", "t", "h", "e", " ", "p", "a", "g", "e", ".">>
T_FailedToExtract == <<"F", "a", "i", "l", "e", "d", " ", "t", "o", " ", "e", "x", "t", "r", "a", "c", "t", " ", "v", "i", "d", "e", "o", " ", "i", "n", "f", "o", "r", "m", "a", "t", "i", "o", "n", " ", "f", "r", "o", "m", " ", "t", "h", "e", " ", "r", "e", "s", "p", "o", "n", "s", "e", ".">>
T_TikTok == <<"T", "i", "k", "T", "o", "k">>

\* the url tiktok is called with
TiktokUrls == {Str(U_tiktok), Str(U_notTiktok), Str(<<>>), Undefined}

\* what the two pages hold: a token input or none on the first, and some
\* download links and photos in the second
TiktokPages == [token : BOOLEAN, links : 0 .. 1, photos : 0 .. 1]

\* the catch block of tiktok
TiktokCatch(url, e) ==
  CreateErrorResponse(e,
    Ctx(<<KindProp("API_ERROR"),
          ServiceCtx(<<[k |-> K_service, v |-> Str(T_TikTok)],
                       [k |-> K_url, v |-> url]>>)>>))

\* extractAllInfo and the rest of tiktok after the second response
TiktokResult(url, page) ==
  IF page.links = 0 /\ page.photos = 0
    THEN CreateErrorResponse(Str(T_FailedToExtract),
           Ctx(<<KindProp("PARSE_ERROR"), ServiceCtx(<<[k |-> K_url, v |-> url]>>)>>))
    ELSE CreateSuccessResponse(
           Obj([originalUrl |-> url,
                contentType |-> IF page.photos > 0 THEN "slideshow" ELSE "video",
                downloadLinks |-> page.links,
                photos |-> page.photos]))

InitTiktok ==
  /\ pc = "entry"
  /\ adapter = "tiktok"
  /\ arg \in TiktokUrls
  /\ dataIn \in TiktokPages
  /\ netCount = 0 /\ ret = Undefined
  /\ trace = <<>>
  /\ options = Undefined /\ retries = 0 /\ retryDelay = 0
  /\ attempt = 0 /\ lastError = Undefined
  /\ calls = <<>> /\ sleeps = <<>> /\ result = Undefined
  /\ errorIn = Undefined /\ contextIn = Undefined /\ envelope = Undefined
  /\ IdleVal /\ IdleCon

\* validateRequiredParams({ url }, ['url']), up to the request of getToken
TiktokEnter ==
  /\ pc = "entry"
  /\ adapter = "tiktok"
  /\ LET v == ValidateRequiredParams(Obj([url |-> arg]), <<"url">>) IN
       IF v.t = "throw"
         THEN pc' = "done" /\ ret' = TiktokCatch(arg, v.error)
         ELSE pc' = "getToken" /\ UNCHANGED ret
  /\ UNCHANGED <<adapter, arg, netCount>>
  /\ UNCHANGED <<reqVars, valVars, envVars, conVars>>

\* the request of getToken resolves: the token is read from the page
TokenPage ==
  /\ pc = "getToken"
  /\ netCount' = netCount + 1
  /\ trace' = Append(trace, "tokenPage")
  /\ IF dataIn.token
       THEN pc' = "submit" /\ UNCHANGED ret
       ELSE pc' = "done" /\ ret' = TiktokCatch(arg, Err("Error", T_TokenNotFound))
  /\ UNCHANGED <<options, retries, retryDelay, attempt, lastError, calls, sleeps, result>>
  /\ UNCHANGED <<adapter, arg>>
  /\ UNCHANGED <<valVars, envVars, conVars>>

\* the POST of the url resolves: decode and extract
SubmitPage ==
  /\ pc = "submit"
  /\ netCount' = netCount + 1
  /\ trace' = Append(trace, "resultPage")
  /\ ret' = TiktokResult(arg, dataIn)
  /\ pc' = "done"
  /\ UNCHANGED <<options, retries, retryDelay, attempt, lastError, calls, sleeps, result>>
  /\ UNCHANGED <<adapter, arg>>
  /\ UNCHANGED <<valVars, envVars, conVars>>

\* makeRequest throws in getToken or in the POST
TiktokRequestThrows ==
  /\ pc \in {"getToken", "submit"}
  /\ netCount' = netCount + 1
  /\ trace' = Append(trace, "failed")
  /\ \E o \in FailOutcomes : ret' = TiktokCatch(arg, AsError(ErrorOf(0, o)))
  /\ pc' = "done"
  /\ UNCHANGED <<options, retries, retryDelay, attempt, lastError, calls, sleeps, result>>
  /\ UNCHANGED <<adapter, arg>>
  /\ UNCHANGED <<valVars, envVars, conVars>>

NextTiktok == TiktokEnter \/ TokenPage \/ SubmitPage \/ TiktokRequestThrows

SpecTiktok == InitTiktok /\ [][NextTiktok]_vars

(***************************************************************************)
(* threads: the filters on the parsed media                                *)
(***************************************************************************)
T_ThreadsInvalid == <<"I", "n", "v", "a", "l", "i", "d", " ", "r", "e", "s", "p", "o", "n", "s", "e", " ", "f", "o", "r", "m", "a", "t", " ", "f", "r", "o", "m", " ", "T", "h", "r", "e", "a", "d", "s", " ", "A", "P", "I">>
T_NoMedia == <<"N", "o", " ", "m", "e", "d", "i", "a", " ", "f", "o", "u", "n", "d", " ", "i", "n", " ", "t", "h", "e", " ", "T", "h", "r", "e", "a", "d", "s", " ", "p", "o", "s", "t">>
K_rawImageCount == <<"r", "a", "w", "I", "m", "a", "g", "e", "C", "o", "u", "n", "t">>
K_rawVideoCount == <<"r", "a", "w", "V", "i", "d", "e", "o", "C", "o", "u", "n", "t">>
K_imagesOnly == <<"i", "m", "a", "g", "e", "s", "O", "n", "l", "y">>
K_videosOnly == <<"v", "i", "d", "e", "o", "s", "O", "n", "l", "y">>
U_image == <<"h", "t", "t", "p", "s", ":", "/", "/", "x", ".", "i", "o", "/", "i">>
U_video == <<"h", "t", "t", "p", "s", ":", "/", "/", "x", ".", "i", "o", "/", "v">>

\* .slice(0, 50)
MediaLimit == 50

\* the elements a raw list of the API holds are URLs, URLs with white space
\* around them, texts that are no URL, and numbers
\* rawData.image_urls / rawData.video_urls: no array, arrays of such
\* elements, and an array longer than the limit
RawLists ==
  {Undefined, Arr(<<>>), Arr(<<Str(U_image)>>), Arr(<<Str(<<"a">>)>>),
   Arr(<<Str(<<" ">> \o U_video \o <<" ">>), Str(<<"a">>)>>),
   Arr(<<Num(7), Str(U_image), Str(U_video)>>),
   Arr([i \in 1 .. 51 |-> Str(U_image)])}

\* response.data
ThreadsBodies ==
  {Null, Str(<<"a">>)} \cup {Obj([image_urls |-> i, video_urls |-> v]) : i, v \in RawLists}

\* the options of a call
ThreadsOptions == [imagesOnly : {Undefined, Bool(TRUE), Bool(FALSE)},
                   videosOnly : {Undefined, Bool(TRUE), Bool(FALSE)}]

\* parseMediaUrls
KeepsUrl(item) ==
  /\ item.t = "string"
  /\ Len(Trim(item.s)) > 0
  /\ IsValidUrl(Trim(item.s))

ParseMediaUrls(urls) ==
  IF urls.t # "array" THEN <<>>
  ELSE LET kept == SelectSeq(urls.items, KeepsUrl)
           trimmed == [i \in 1 .. Len(kept) |-> Str(Trim(kept[i].s))]
       IN SubSeq(trimmed, 1, IF Len(trimmed) < MediaLimit THEN Len(trimmed) ELSE MediaLimit)

\* if (options.imagesOnly) ... else if (options.videosOnly) ...
ApplyFiltersVideosFirst(opts, imageUrls, videoUrls) ==
  IF ~IsFalsy(opts.videosOnly) THEN [image_urls |-> <<>>, video_urls |-> videoUrls]
  ELSE IF ~IsFalsy(opts.imagesOnly) THEN [image_urls |-> imageUrls, video_urls |-> <<>>]
  ELSE [image_urls |-> imageUrls, video_urls |-> videoUrls]

ApplyFilters(opts, imageUrls, videoUrls) ==
  IF ~IsFalsy(opts.imagesOnly) THEN [image_urls |-> imageUrls, video_urls |-> <<>>]
  ELSE IF ~IsFalsy(opts.videosOnly) THEN [image_urls |-> <<>>, video_urls |-> videoUrls]
  ELSE [image_urls |-> imageUrls, video_urls |-> videoUrls]

\* threads after its response
ThreadsResult(url, opts, data) ==
  IF data.t # "object"
    THEN CreateErrorResponse(Str(T_ThreadsInvalid),
           Ctx(<<[k |-> K_responseType, v |-> Str(IF data.t = "null" THEN T_object ELSE <<"s", "t", "r", "i", "n", "g">>)],
                 [k |-> K_status, v |-> Num(200)]>>))
  ELSE LET imageUrls == ParseMediaUrls(Lookup(data, "image_urls"))
           videoUrls == ParseMediaUrls(Lookup(data, "video_urls"))
           filteredData == ApplyFilters(opts, imageUrls, videoUrls)
       IN IF Len(filteredData.image_urls) = 0 /\ Len(filteredData.video_urls) = 0
            THEN CreateErrorResponse(Str(T_NoMedia),
                   Ctx(<<[k |-> K_url, v |-> Str(Trim(url.s))],
                         [k |-> K_rawImageCount, v |-> Num(Len(imageUrls))],
                         [k |-> K_rawVideoCount, v |-> Num(Len(videoUrls))]>>))
            ELSE CreateSuccessResponse(
                   Obj([image_urls |-> Arr(filteredData.image_urls),
                        video_urls |-> Arr(filteredData.video_urls)]))

\* the catch block of threads, for a url that is a string
ThreadsCatch(url, opts, e) ==
  CreateErrorResponse(e,
    Ctx(<<[k |-> K_url, v |-> Str(Substring0(url.s, 100))],
          [k |-> K_options, v |-> Ctx(<<[k |-> K_imagesOnly, v |-> opts.imagesOnly],
                                        [k |-> K_videosOnly, v |-> opts.videosOnly]>>)]>>))

InitThreads ==
  /\ pc = "entry"
  /\ adapter = "threads"
  /\ arg \in {Str(U_threads), Str(U_other)}
  /\ options \in ThreadsOptions
  /\ dataIn \in ThreadsBodies
  /\ netCount = 0 /\ ret = Undefined
  /\ retries = 0 /\ retryDelay = 0
  /\ attempt = 0 /\ lastError = Undefined
  /\ calls = <<>> /\ sleeps = <<>> /\ trace = <<>> /\ result = Undefined
  /\ errorIn = Undefined /\ contextIn = Undefined /\ envelope = Undefined
  /\ IdleVal /\ IdleCon

\* the call up to makeRequest
ThreadsStart ==
  /\ pc = "entry"
  /\ adapter = "threads"
  /\ LET step == ThreadsEntry(arg) IN
       IF step.t = "request"
         THEN pc' = "request" /\ UNCHANGED ret
         ELSE pc' = "done" /\ ret' = step.value
  /\ UNCHANGED <<adapter, arg, netCount>>
  /\ UNCHANGED <<reqVars, valVars, envVars, conVars>>

\* makeRequest returns the response
ThreadsResolves ==
  /\ pc = "request"
  /\ adapter = "threads"
  /\ netCount' = netCount + 1
  /\ trace' = <<"response">>
  /\ ret' = ThreadsResult(arg, options, dataIn)
  /\ pc' = "done"
  /\ UNCHANGED <<options, retries, retryDelay, attempt, lastError, calls, sleeps, result>>
  /\ UNCHANGED <<adapter, arg>>
  /\ UNCHANGED <<valVars, envVars, conVars>>

\* makeRequest throws
ThreadsThrows ==
  /\ pc = "request"
  /\ adapter = "threads"
  /\ netCount' = netCount + 1
  /\ trace' = <<"failed">>
  /\ \E o \in FailOutcomes : ret' = ThreadsCatch(arg, options, AsError(ErrorOf(0, o)))
  /\ pc' = "done"
  /\ UNCHANGED <<options, retries, retryDelay, attempt, lastError, calls, sleeps, result>>
  /\ UNCHANGED <<adapter, arg>>
  /\ UNCHANGED <<valVars, envVars, conVars>>

NextThreads == ThreadsStart \/ ThreadsResolves \/ ThreadsThrows

SpecThreads == InitThreads /\ [][NextThreads]_vars

(***************************************************************************)
(* searchSoundCloud and getClientID: the module-level cache                *)
(***************************************************************************)
T_FailedClientId == <<"F", "a", "i", "l", "e", "d", " ", "t", "o", " ", "g", "e", "t", " ", "c", "l", "i", "e", "n", "t", "_", "i", "d", ":", " ">>
T_InvalidHtml == <<"i", "n", "v", "a", "l", "i", "d", " ", "h", "t", "m", "l", " ", "d", "a", "t", "a">>
T_FailedToObtain == <<"F", "a", "i", "l", "e", "d", " ", "t", "o", " ", "o", "b", "t", "a", "i", "n", " ", "c", "l", "i", "e", "n", "t", "_", "i", "d">>
T_InvalidSoundCloud == <<"I", "n", "v", "a", "l", "i", "d", " ", "S", "o", "u", "n", "d", "C", "l", "o", "u", "d", " ", "A", "P", "I", " ", "r", "e", "s", "p", "o", "n", "s", "e">>

\* the versions the site goes through, an older and a newer one; 0 stands
\* for a page without a window.__sc_version tag and for the '' of the
\* initial cache
Versions == {1, 2}

\* the client_id the asset scripts of a version carry (0 stands for '')
IdOf(version) == 10 + version

\* what the asset scripts of a page answer with, in page order: a script
\* with a client_id, a script without one, or data that is no string
ScriptLists ==
  {<<>>, <<"id">>, <<"plain", "binary">>, <<"binary", "id">>, <<"id", "id">>}

\* the homepage as one request sees it
HomePages ==
  {[version |-> 0, scripts |-> <<>>]} \cup [version : Versions, scripts : ScriptLists]

\* let cache = { version: '', id: '' }
EmptyCache == [version |-> 0, id |-> 0]

\* cache.version === version
CacheHitNever(c, version) == FALSE
CacheHit(c, version) == c.version = version

\* cache = { version, id: idMatch[1] }
CacheWriteIdOnly(c, version, id) == [c EXCEPT !.id = id]
CacheWrite(c, version, id) == [version |-> version, id |-> id]

\* the options every call is given
SoundCloudOptions == Obj([query |-> Str(<<"a">>)])

\* a call of searchSoundCloud that awaits the homepage in getClientID;
\* scripts and k are the local variables of the for loop, alive during it
FreshSearch ==
  [pc |-> "home", version |-> 0, scripts |-> <<>>, k |-> 0, asked |-> <<>>,
   got |-> Undefined, ret |-> Undefined]

\* getClientID returned null
NoClientId ==
  CreateErrorResponse(Str(T_FailedToObtain),
    Ctx(<<KindProp("AUTH_ERROR"), ServiceCtx(<<[k |-> K_service, v |-> Str(T_SoundCloud)]>>)>>))

\* getClientID threw: its catch wraps the error, the catch of
\* searchSoundCloud returns the envelope
ClientIdError(message) == Err("Error", T_FailedClientId \o message)

SoundCloudCatch(e) == CatchOf("searchSoundCloud", SoundCloudOptions, e)

InitSoundCloud ==
  /\ pc = "soundcloud"
  /\ inv = [i \in Calls |-> FreshSearch]
  /\ world = [t |-> "world", cache |-> EmptyCache]
  /\ IdleReq /\ IdleVal /\ IdleEnv /\ IdleAd

\* the homepage request of call i throws, or its data is no string
HomeFails(i) ==
  /\ pc = "soundcloud"
  /\ inv[i].pc = "home"
  /\ \E message \in {T_NetworkError, T_InvalidHtml} :
       inv' = [inv EXCEPT ![i].pc = "done",
                          ![i].got = ClientIdError(message),
                          ![i].ret = SoundCloudCatch(ClientIdError(message))]
  /\ UNCHANGED <<pc, world>>
  /\ UNCHANGED <<reqVars, valVars, envVars, adVars>>

\* the homepage request of call i resolves: the version is read, the cache
\* is consulted, the script URLs are collected
HomePage(i) ==
  /\ pc = "soundcloud"
  /\ inv[i].pc = "home"
  /\ \E page \in HomePages :
       IF page.version = 0
         THEN inv' = [inv EXCEPT ![i].pc = "done", ![i].got = Null, ![i].ret = NoClientId]
       ELSE IF CacheHit(world.cache, page.version)
         THEN inv' = [inv EXCEPT ![i].pc = "search", ![i].version = page.version,
                                 ![i].got = Num(world.cache.id)]
       ELSE IF page.scripts = <<>>
         THEN inv' = [inv EXCEPT ![i].pc = "done", ![i].version = page.version,
                                 ![i].got = Null, ![i].ret = NoClientId]
       ELSE inv' = [inv EXCEPT ![i].pc = "scripts", ![i].version = page.version,
                               ![i].scripts = page.scripts, ![i].k = 1]
  /\ UNCHANGED <<pc, world>>
  /\ UNCHANGED <<reqVars, valVars, envVars, adVars>>

\* the request of the next script of call i resolves
ScriptAnswer(i) ==
  /\ pc = "soundcloud"
  /\ inv[i].pc = "scripts"
  /\ LET c == inv[i]
         asked == Append(c.asked, c.k)
     IN IF c.scripts[c.k] = "id"
          THEN /\ world' = [world EXCEPT !.cache = CacheWrite(@, c.version, IdOf(c.version))]
               /\ inv' = [inv EXCEPT ![i].pc = "search", ![i].asked = asked,
                                     ![i].scripts = <<>>, ![i].k = 0,
                                     ![i].got = Num(IdOf(c.version))]
        ELSE IF c.k < Len(c.scripts)
          THEN /\ inv' = [inv EXCEPT ![i].k = c.k + 1, ![i].asked = asked]
               /\ UNCHANGED world
        ELSE /\ inv' = [inv EXCEPT ![i].pc = "done", ![i].asked = asked,
                                   ![i].scripts = <<>>, ![i].k = 0,
                                   ![i].got = Null, ![i].ret = NoClientId]
             /\ UNCHANGED world
  /\ UNCHANGED pc
  /\ UNCHANGED <<reqVars, valVars, envVars, adVars>>

\* the request of the next script of call i throws
ScriptFails(i) ==
  /\ pc = "soundcloud"
  /\ inv[i].pc = "scripts"
  /\ inv' = [inv EXCEPT ![i].pc = "done",
                        ![i].asked = Append(inv[i].asked, inv[i].k),
                        ![i].scripts = <<>>, ![i].k = 0,
                        ![i].got = ClientIdError(T_NetworkError),
                        ![i].ret = SoundCloudCatch(ClientIdError(T_NetworkError))]
  /\ UNCHANGED <<pc, world>>
  /\ UNCHANGED <<reqVars, valVars, envVars, adVars>>

\* the search request of call i ends
SearchEnds(i) ==
  /\ pc = "soundcloud"
  /\ inv[i].pc = "search"
  /\ \E o \in {"collection", "noCollection", "throws"} :
       inv' = [inv EXCEPT ![i].pc = "done",
                 ![i].ret =
                   CASE o = "collection" -> CreateSuccessResponse(Obj([tracks |-> Arr(<<>>)]))
                     [] o = "noCollection" ->
                          CreateErrorResponse(Str(T_InvalidSoundCloud),
                            Ctx(<<KindProp("INVALID_RESPONSE")>>))
                     [] o = "throws" -> SoundCloudCatch(Err("AxiosError", T_NetworkError))]
  /\ UNCHANGED <<pc, world>>
  /\ UNCHANGED <<reqVars, valVars, envVars, adVars>>

NextSoundCloud ==
  \E i \in Calls :
    \/ HomeFails(i) \/ HomePage(i)
    \/ ScriptAnswer(i) \/ ScriptFails(i)
    \/ SearchEnds(i)

SpecSoundCloud == InitSoundCloud /\ [][NextSoundCloud]_vars

(***************************************************************************)
(* ytmp3cc.download: the phases and the progress-check loop                *)
(***************************************************************************)
T_avi == <<"a", "v", "i">>
T_InvalidFormat == <<"I", "n", "v", "a", "l", "i", "d", " ", "f", "o", "r", "m", "a", "t", ":", " ", "a", "v", "i", ".", " ", "A", "v", "a", "i", "l", "a", "b", "l", "e", " ", "f", "o", "r", "m", "a", "t", "s", ":", " ", "m", "p", "3", ",", " ", "m", "p", "4">>
T_InitApiError == <<"E", "r", "r", "o", "r", " ", "i", "n", " ", "i", "n", "i", "t", " ", "A", "P", "I", ":", " ", "1">>
T_ConvertError == <<"E", "r", "r", "o", "r", " ", "a", "f", "t", "e", "r", " ", "c", "o", "n", "v", "e", "r", "t", " ", "U", "R", "L", " ", "f", "e", "t", "c", "h", ":", " ", "1", ".", " ", "P", "r", "o", "b", "a", "b", "l", "y", " ", "b", "a", "d", " ", "Y", "o", "u", "T", "u", "b", "e", " ", "v", "i", "d", "e", "o", " ", "I", "D", " ", "o", "r", " ", "u", "n", "s", "u", "p", "p", "o", "r", "t", "e", "d", " ", "v", "i", "d", "e", "o", ".">>
T_ConversionError == <<"C", "o", "n", "v", "e", "r", "s", "i", "o", "n", " ", "e", "r", "r", "o", "r", ":", " ", "1", ".", " ", "V", "i", "d", "e", "o", " ", "m", "i", "g", "h", "t", " ", "b", "e", " ", "t", "o", "o", " ", "l", "o", "n", "g", " ", "o", "r", " ", "i", "n", "c", "o", "m", "p", "a", "t", "i", "b", "l", "e", " ", "(", ">", "4", "5", " ", "m", "i", "n", "s", ")", ".">>
T_FetchFailedAt == <<"F", "e", "t", "c", "h", " ", "f", "a", "i", "l", "e", "d", " ", "a", "t", " ">>
T_FetchReason == <<"R", "e", "a", "s", "o", "n", ":", " ", "f", "e", "t", "c", "h", " ", "f", "a", "i", "l", "e", "d">>
T_FetchStatus == <<"S", "t", "a", "t", "u", "s", ":", " ", "n", "u", "l", "l", " ", "n", "u", "l", "l">>
T_FetchBody == <<"R", "e", "s", "p", "o", "n", "s", "e", " ", "b", "o", "d", "y", ":", " ", "n", "u", "l", "l">>
T_videoId == <<"d", "Q", "w", "4", "w", "9", "W", "g", "X", "c", "Q">>
K_phase == <<"p", "h", "a", "s", "e">>
K_videoId == <<"v", "i", "d", "e", "o", "I", "d">>
K_error_code == <<"e", "r", "r", "o", "r", "_", "c", "o", "d", "e">>
K_error == <<"e", "r", "r", "o", "r">>

\* validFormats
ValidFormats == {T_mp3, T_mp4}

\* the delay between two progress checks
ProgressDelay == 5000

\* the progress value that ends the loop
ProgressDone == 3

\* the checks and delays of a call are counted up to this number; beyond it
\* the counters stay where they are
MaxChecks == 40

Counted(n) == IF n < MaxChecks THEN n + 1 ELSE n

\* the awaits before the loop, in order, with the description hit is given
Phases == <<"getYoutubeId", "homepage", "jsFile", "init", "convert", "redirect">>

PhaseText(p) ==
  CASE p = "homepage" -> <<"h", "i", "t", " ", "h", "o", "m", "e", "p", "a", "g", "e", " ", "y", "t", "m", "p", "3", "c", "c">>
    [] p = "jsFile" -> <<"d", "o", "w", "n", "l", "o", "a", "d", " ", "j", "s", " ", "f", "i", "l", "e", " ", "y", "t", "m", "p", "3">>
    [] p = "init" -> <<"i", "n", "i", "t", " ", "a", "p", "i">>
    [] p = "convert" -> <<"h", "i", "t", " ", "c", "o", "n", "v", "e", "r", "t">>
    [] p = "redirect" -> <<"f", "e", "t", "c", "h", " ", "r", "e", "d", "i", "r", "e", "c", "t", "U", "R", "L">>
    [] p = "check" -> <<"c", "h", "e", "c", "k", " ", "p", "r", "o", "g", "r", "e", "s", "s", "U", "R", "L">>
    [] p = "initPhase" -> <<"i", "n", "i", "t">>
    [] p = "convertPhase" -> <<"c", "o", "n", "v", "e", "r", "t">>
    [] p = "progress check" -> <<"p", "r", "o", "g", "r", "e", "s", "s", " ", "c", "h", "e", "c", "k">>

\* the Error hit throws when fetch fails
FetchFailed(p) ==
  Err("Error", T_FetchFailedAt \o PhaseText(p) \o <<"\n">> \o T_FetchReason \o <<"\n">>
                 \o T_FetchStatus \o <<"\n">> \o T_FetchBody)

\* the error responses returned from inside the try block
Ytmp3ccError(text, phase, more) ==
  CreateErrorResponse(Str(text),
    Ctx(<<KindProp("API_ERROR"),
          ServiceCtx(<<[k |-> K_service, v |-> Str(T_ytmp3cc)],
                       [k |-> K_phase, v |-> Str(PhaseText(phase))]>> \o more)>>))

\* while (progress !== 3)
LoopsOn(progress) == progress # ProgressDone

\* what one progress check answers
ProgressAnswers == [error : BOOLEAN, progress : 0 .. 3, title : {<<>>, <<"a">>}]

InitYtmp3cc ==
  /\ pc = "start"
  /\ adapter = "ytmp3cc.download"
  /\ arg = Str(U_other)
  /\ options \in {Str(T_mp3), Str(T_avi)}
  /\ netCount = 0 /\ ret = Undefined
  /\ attempt = 0
  /\ result = [error |-> FALSE, progress |-> 0, title |-> <<>>]
  /\ retries = 0 /\ retryDelay = 0 /\ lastError = Undefined
  /\ calls = <<>> /\ sleeps = <<>> /\ trace = <<>>
  /\ IdleVal /\ IdleEnv /\ IdleCon

\* the format test before the try block
Ytmp3ccStart ==
  /\ pc = "start"
  /\ IF options.s \in ValidFormats
       THEN pc' = "getYoutubeId" /\ UNCHANGED ret
       ELSE /\ pc' = "done"
            /\ ret' = CreateErrorResponse(Str(T_InvalidFormat),
                        Ctx(<<KindProp("INVALID_PARAMETER")>>))
  /\ UNCHANGED <<adapter, arg, netCount>>
  /\ UNCHANGED <<reqVars, valVars, envVars, conVars>>

\* one of the requests before the loop resolves with a usable answer
PhaseDone ==
  /\ \E i \in 1 .. Len(Phases) :
       /\ pc = Phases[i]
       /\ pc' \in IF pc = "convert" THEN {"redirect", "check"}
                  ELSE IF pc = "redirect" THEN {"check"}
                  ELSE {Phases[i + 1]}
  /\ UNCHANGED <<adapter, arg, netCount, ret>>
  /\ UNCHANGED <<reqVars, valVars, envVars, conVars>>

\* the init or the convert request answers with an error code
PhaseReportsError ==
  /\ pc \in {"init", "convert"}
  /\ ret' = IF pc = "init"
              THEN Ytmp3ccError(T_InitApiError, "initPhase", <<>>)
              ELSE Ytmp3ccError(T_ConvertError, "convertPhase",
                                <<[k |-> K_videoId, v |-> Str(T_videoId)]>>)
  /\ pc' = "done"
  /\ UNCHANGED <<adapter, arg, netCount>>
  /\ UNCHANGED <<reqVars, valVars, envVars, conVars>>

\* one of the requests before the loop, or a progress check, throws: catch
PhaseThrows ==
  /\ pc \in {Phases[i] : i \in 1 .. Len(Phases)} \cup {"check"}
  /\ ret' = CatchOf("ytmp3cc.download", arg,
                    IF pc = "getYoutubeId" THEN Err("Error", T_VideoIdError)
                    ELSE FetchFailed(pc))
  /\ pc' = "done"
  /\ netCount' = IF pc = "check" THEN Counted(netCount) ELSE netCount
  /\ UNCHANGED <<adapter, arg>>
  /\ UNCHANGED <<reqVars, valVars, envVars, conVars>>

\* one progress check resolves: the body of the loop up to its delay
ProgressCheck ==
  /\ pc = "check"
  /\ LoopsOn(result.progress)
  /\ netCount' = Counted(netCount)
  /\ \E answer \in ProgressAnswers :
       /\ result' = answer
       /\ IF answer.error
            THEN /\ pc' = "done"
                 /\ ret' = Ytmp3ccError(T_ConversionError, "progress check",
                             <<[k |-> K_videoId, v |-> Str(T_videoId)],
                               [k |-> K_error_code, v |-> Str(<<"1">>)]>>)
          ELSE IF answer.progress # ProgressDone
            THEN pc' = "delay" /\ UNCHANGED ret
          ELSE /\ pc' = "done"
               /\ ret' = CreateSuccessResponse(
                           Obj([title |-> Str(answer.title), downloadUrl |-> Str(U_threads),
                                type |-> options]))
  /\ UNCHANGED <<options, retries, retryDelay, attempt, lastError, calls, sleeps, trace>>
  /\ UNCHANGED <<adapter, arg>>
  /\ UNCHANGED <<valVars, envVars, conVars>>

\* await delay(5000), then the loop condition
ProgressWait ==
  /\ pc = "delay"
  /\ attempt' = Counted(attempt)
  /\ sleeps' = <<ProgressDelay>>
  /\ pc' = "check"
  /\ UNCHANGED <<options, retries, retryDelay, lastError, calls, trace, result>>
  /\ UNCHANGED adVars
  /\ UNCHANGED <<valVars, envVars, conVars>>

NextYtmp3cc ==
  \/ Ytmp3ccStart \/ PhaseDone \/ PhaseReportsError \/ PhaseThrows
  \/ ProgressCheck \/ ProgressWait

SpecYtmp3cc == InitYtmp3cc /\ [][NextYtmp3cc]_vars

\* the same with the call being run on: the format test is executed, every
\* request is answered and the timer fires
SpecYtmp3ccFair ==
  /\ SpecYtmp3cc
  /\ WF_vars(Ytmp3ccStart) /\ WF_vars(PhaseDone)
  /\ WF_vars(ProgressCheck) /\ WF_vars(ProgressWait)

(***************************************************************************)
(* Claims about makeRequest (checked under SpecRequest)                    *)
(***************************************************************************)
\* a failed attempt that carries an HTTP client-error status other than 429
ClientError(o) ==
  ~o.ok /\ o.hasResponse /\ o.status >= 400 /\ o.status < 500 /\ o.status # 429

\* a failed attempt of any other kind: 429, 5xx, another status, or no status
RetryableFailure(o) == ~o.ok /\ ~ClientError(o)

AllRetryable(s) == \A i \in 1 .. Len(s) : RetryableFailure(s[i])

Settled == pc \in {"returned", "thrown"}

\* C1: an attempt that fails with a status s, 400 <= s < 500, s # 429, is the
\* last attempt: its failure is what makeRequest throws, no sleep and no other
\* attempt follows it, whatever retries is; if it is the first attempt, one
\* attempt is made in total.
C1_NoRetryOnClientError ==
  \A i \in 1 .. Len(calls) :
    ClientError(calls[i]) =>
      /\ i = Len(calls)
      /\ pc = "thrown"
      /\ result = ErrorOf(i - 1, calls[i])
      /\ trace[Len(trace)] = "call"
      /\ Len(sleeps) = i - 1
      /\ (i = 1 => Len(calls) = 1 /\ sleeps = <<>>)

C1_Witness ==
  /\ pc = "thrown" /\ retries = 3 /\ Len(calls) = 1
  /\ calls[1].status = 404 /\ calls[1].hasResponse

\* C2: while only retryable failures have occurred and at most retries of
\* them, makeRequest has not given up and goes on to the next attempt; an
\* attempt that succeeds after k such failures is attempt k+1, it is the last
\* one and its response is returned.
C2_RetryThenSuccess ==
  /\ (AllRetryable(calls) /\ Len(calls) <= retries) =>
        /\ pc \in {"loop", "sleep"}
        /\ result = Undefined
        /\ (pc = "loop" => attempt = Len(calls) /\ ENABLED Attempt)
        /\ (pc = "sleep" => attempt = Len(calls) - 1 /\ ENABLED Sleep)
  /\ \A i \in 1 .. Len(calls) :
        calls[i].ok =>
          /\ i = Len(calls)
          /\ pc = "returned"
          /\ result = [t |-> "response", at |-> i - 1, status |-> calls[i].status]
          /\ AllRetryable(SubSeq(calls, 1, i - 1))
          /\ i - 1 <= retries

C2_Witness ==
  /\ pc = "returned" /\ retries >= 2 /\ Len(calls) = 3
  /\ calls[1].status = 429 /\ calls[2].status = 429 /\ calls[3].ok
  /\ result.status = 200

\* C3: when makeRequest has thrown and every attempt failed retryably, it made
\* exactly retries + 1 attempts and threw the error of the last of them
\* (retries >= 0; one attempt when retries = 0).
C3_ExhaustedThrowsLast ==
  (pc = "thrown" /\ AllRetryable(calls) /\ retries >= 0) =>
     /\ Len(calls) = retries + 1
     /\ result = ErrorOf(retries, calls[retries + 1])
     /\ result.at = Len(calls) - 1

C3_Witness ==
  /\ pc = "thrown" /\ retries = 2 /\ Len(calls) = 3
  /\ calls[1].status = 500 /\ calls[2].status = 429 /\ calls[3].status = 503

C3_WitnessZero ==
  /\ pc = "thrown" /\ retries = 0 /\ Len(calls) = 1 /\ ~calls[1].hasResponse

C5_ReturnsOrThrows ==
  /\ (pc = "returned" =>
        /\ calls # <<>>
        /\ calls[Len(calls)].ok
        /\ \A i \in 1 .. Len(calls) - 1 : ~calls[i].ok
        /\ result = [t |-> "response", at |-> Len(calls) - 1, status |-> calls[Len(calls)].status]
        /\ trace[Len(trace)] = "call")
  /\ (pc = "thrown" =>
        /\ \A i \in 1 .. Len(calls) : ~calls[i].ok
        /\ (retries >= 0 =>
              /\ calls # <<>>
              /\ result = ErrorOf(Len(calls) - 1, calls[Len(calls)])))
  /\ (~Settled => result = Undefined /\ ENABLED NextRequest)

C5_WitnessReturn ==
  /\ pc = "returned" /\ Len(calls) = 2 /\ calls[1].status = 503

C5_WitnessThrow ==
  /\ pc = "thrown" /\ Len(calls) = 2 /\ calls[2].status = 404

(***************************************************************************)
(* Claims about validateRequiredParams (checked under SpecValidate)        *)
(***************************************************************************)
\* absent, null, the empty string, or a string of whitespace only
Unusable(v) ==
  \/ v \in {Undefined, Null}
  \/ (v.t = "string" /\ \A i \in 1 .. Len(v.s) : v.s[i] \in Whitespace)

\* C7: validateRequiredParams throws exactly when some required name has a
\* value that is absent, null, the empty string or whitespace only; the error
\* it throws names the first such name in required; otherwise it returns; in
\* both cases params is left as it was.
C7_ValidateIff ==
  /\ [](pc = "validated" =>
        /\ (vout.t = "throw") <=>
             (\E i \in 1 .. Len(required) : Unusable(Lookup(params, required[i])))
        /\ (vout.t = "throw" =>
             /\ vout.why \in {"required", "emptyString"}
             /\ \E i \in 1 .. Len(required) :
                  /\ required[i] = vout.param
                  /\ Unusable(Lookup(params, required[i]))
                  /\ \A j \in 1 .. i - 1 : ~Unusable(Lookup(params, required[j])))
        /\ ((params.f["url"] = Str(<<>>) /\ required = <<"url">>) =>
             vout.t = "throw" /\ vout.param = "url"
               /\ vout.error.message = RequiredMessage("url")))
  /\ [][params' = params /\ required' = required]_vars

C7_Witness ==
  /\ pc = "validated" /\ required = <<"url">> /\ params.f["url"] = Str(<<>>)
  /\ vout.t = "throw" /\ vout.param = "url"

C7_WitnessBlank ==
  /\ pc = "validated" /\ required = <<"query", "url">>
  /\ params.f["query"] = Str(<<"a">>) /\ params.f["url"] = Str(<<" ", "\t">>)
  /\ vout.t = "throw" /\ vout.param = "url" /\ vout.why = "emptyString"

C7_WitnessPass ==
  /\ pc = "validated" /\ required = <<"url", "query">>
  /\ params.f["url"] = Num(0) /\ params.f["query"] = Str(<<" ", "a">>)
  /\ vout.t = "return"

(***************************************************************************)
(* Claims about the envelope constructors (checked under SpecEnvelope)     *)
(***************************************************************************)
Built == pc \in {"builtError", "builtSuccess"} /\ envelope.t = "envelope"

\* the text between the leading "[" and the first "]" of an error message
RECURSIVE UpToBracket(_)
UpToBracket(s) ==
  IF s = <<>> \/ s[1] = "]" THEN <<>> ELSE <<s[1]>> \o UpToBracket(Tail(s))

TagOf(text) == UpToBracket(Tail(text))

\* C9: in every envelope built, exactly one of data and error is defined and
\* it matches status: status true gives data defined and error undefined,
\* status false gives error a string and data undefined.
C9_EnvelopeExclusive ==
  Built =>
    /\ (envelope.data # Undefined) # (envelope.error # Undefined)
    /\ (envelope.status => envelope.data # Undefined /\ envelope.error = Undefined)
    /\ (~envelope.status => envelope.error.t = "string" /\ envelope.data = Undefined)

\* the kind the message text selects: network, then timeout, then rate / limit
KindByText(m) ==
  IF Includes(m, W_network) THEN "NETWORK_ERROR"
  ELSE IF Includes(m, W_timeout) THEN "NETWORK_ERROR"
  ELSE IF Includes(m, W_rate) \/ Includes(m, W_limit) THEN "RATE_LIMITED"
  ELSE "UNKNOWN_ERROR"

\* C10 as stated: for every input form the tag is the explicit kind if one is
\* supplied, else (plain strings included) the kind selected by the transport
\* marker or the message text.
C10_KindForEveryForm ==
  (pc = "builtError" /\ envelope.t = "envelope") =>
    TagOf(envelope.error.s) =
      KindText(IF errorIn.t = "ScraperError" THEN errorIn.type
               ELSE IF errorIn.t = "Error" /\ errorIn.name = "AxiosError" THEN "NETWORK_ERROR"
               ELSE KindByText(MessageOf(errorIn)))

\* C10 amended: a structured error gives its explicit kind; an Error object
\* gives NETWORK_ERROR when it is an AxiosError or its message contains
\* "network" or "timeout", else RATE_LIMITED when the message contains "rate"
\* or "limit", else UNKNOWN_ERROR; a plain string always gives UNKNOWN_ERROR,
\* whatever its text; the message follows the tag.
C10_KindSelection ==
  (pc = "builtError" /\ envelope.t = "envelope") =>
    /\ TagOf(envelope.error.s) =
         KindText(IF errorIn.t = "ScraperError" THEN errorIn.type
                  ELSE IF errorIn.t = "string" THEN "UNKNOWN_ERROR"
                  ELSE IF errorIn.name = "AxiosError" THEN "NETWORK_ERROR"
                  ELSE KindByText(errorIn.message))
    /\ (errorIn = Str(F_boom) =>
          StartsWith(envelope.error.s, <<"[">> \o KindText("UNKNOWN_ERROR") \o <<"]", " ">> \o F_boom))

C10_Witness ==
  /\ pc = "builtError" /\ envelope.t = "envelope"
  /\ errorIn = Err("Error", W_rate \o W_timeout)
  /\ TagOf(envelope.error.s) = KindText("NETWORK_ERROR")

C10_WitnessString ==
  /\ pc = "builtError" /\ envelope.t = "envelope"
  /\ errorIn = Str(W_network)
  /\ TagOf(envelope.error.s) = KindText("UNKNOWN_ERROR")

C10_WitnessBoom ==
  /\ pc = "builtError" /\ errorIn = Str(F_boom) /\ contextIn = Undefined
  /\ envelope.t = "envelope"
  /\ envelope.error.s = <<"[">> \o KindText("UNKNOWN_ERROR") \o <<"]", " ">> \o F_boom

(***************************************************************************)
(* Claims about the scraper functions                                      *)
(***************************************************************************)
CallEnded == adapter # "none" /\ pc = "done"

IsEnvelope(v) == v.t = "envelope" /\ v.status \in BOOLEAN

\* C6: every public scraper function ends, for every argument value and
\* every outcome of its requests, by returning a response object with a
\* boolean status; it never throws and never returns anything else.
C6_NeverThrows == CallEnded => IsEnvelope(ret)

\* C8: when the required input of a scraper function is absent, empty or
\* whitespace-only, the call makes no request and ends with an error
\* envelope (status false), not with a raw exception.
C8_ValidationBeforeRequests ==
  (adapter # "none" /\ Unusable(RequiredInput(adapter, arg)))
    => /\ netCount = 0
       /\ pc # "request"
       /\ CallEnded => (IsEnvelope(ret) /\ ret.status = FALSE)

(***************************************************************************)
(* Claims about the text of an error envelope                              *)
(***************************************************************************)
\* the error was built from an error value the signature admits and a
\* context JSON.stringify accepts
BuiltFromSerializable ==
  /\ pc = "builtError"
  /\ errorIn # Undefined
  /\ ~HasCycle(contextIn)

Bracketed(k) == <<"[">> \o KindText(k) \o <<"]", " ">>

L_ContextEmpty == <<" ", "|", " ", "C", "o", "n", "t", "e", "x", "t", ":", " ", "{", "}">>
L_ContextType == <<" ", "|", " ", "C", "o", "n", "t", "e", "x", "t", ":", " ", "{", "\"", "t", "y", "p", "e", "\"", ":", "\"", "N", "E", "T", "W", "O", "R", "K", "_", "E", "R", "R", "O", "R", "\"", "}">>
L_ContextQuote == <<" ", "|", " ", "C", "o", "n", "t", "e", "x", "t", ":", " ", "{", "\"", "u", "r", "l", "\"", ":", "\"", "a", "\\", "\"", "\"", "}">>

\* the text appended for each supplied context, written out
ExpectedSuffix(c) ==
  CASE c = Undefined -> <<>>
    [] c = Ctx(<<>>) -> L_ContextEmpty
    [] c = Ctx(<<[k |-> K_type, v |-> Str(KindText("NETWORK_ERROR"))]>>) -> L_ContextType
    [] OTHER -> L_ContextQuote

\* C11: createErrorResponse returns status false and the message
\* "[<KIND>] <message>"; with a context object the message is followed by
\* " | Context: " and the JSON text of the context, and with no context
\* nothing is appended.
C11_MessageFormat ==
  BuiltFromSerializable =>
    /\ envelope.t = "envelope"
    /\ envelope.status = FALSE
    /\ \E k \in ScraperErrorType :
         envelope.error.s = Bracketed(k) \o MessageOf(errorIn) \o ExpectedSuffix(contextIn)

C11_Witness ==
  /\ BuiltFromSerializable
  /\ errorIn = Str(F_boom)
  /\ contextIn = Ctx(<<[k |-> K_type, v |-> Str(KindText("NETWORK_ERROR"))]>>)
  /\ envelope.error.s = Bracketed("UNKNOWN_ERROR") \o F_boom \o L_ContextType

C11_WitnessNoContext ==
  /\ BuiltFromSerializable
  /\ errorIn = Err("Error", W_timeout)
  /\ contextIn = Undefined
  /\ envelope.error.s = Bracketed("NETWORK_ERROR") \o W_timeout

\* C12: createErrorResponse never throws when the context cannot be
\* serialized (it holds a circular reference): it still returns an error
\* envelope whose text starts with "[<KIND>] <message>", with or without the
\* context fragment.
C12_UnserializableContextTolerated ==
  (pc = "builtError" /\ errorIn # Undefined /\ HasCycle(contextIn)) =>
    /\ envelope.t = "envelope"
    /\ envelope.status = FALSE
    /\ \E k \in ScraperErrorType :
         StartsWith(envelope.error.s, Bracketed(k) \o MessageOf(errorIn))

(***************************************************************************)
(* Claims about scraper functions and retries                              *)
(***************************************************************************)
RequestEnded == adapter \in Requesters /\ pc = "done"

\* the retries in force for the request of a call: the caller's value, or
\* the default of makeRequest when the caller can give none
RetriesInForce == IF options = Undefined THEN DefaultRetries ELSE retries

LastCall == calls[Len(calls)]

\* a response each function turns into a success envelope
UsablePayload ==
  CASE adapter = "blackboxAi" -> dataIn.t = "string"
    [] adapter = "Ytdl.mp3" -> dataIn.t = "object"
    [] OTHER -> TRUE

C13_WitnessDirect ==
  /\ RequestEnded /\ adapter = "Ytdl.mp3"
  /\ Len(calls) = 1 /\ RetryableFailure(calls[1]) /\ calls[1].status = 503
  /\ ret.t = "envelope" /\ ret.status = FALSE

(***************************************************************************)
(* Claims about concurrent calls                                           *)
(***************************************************************************)
HasTempFile(i) == inv[i].tempPath # Undefined

\* C14: concurrent calls share no state, so each call gets the result it
\* would get alone: two generatePollinationsImage calls never use the same
\* temporary file, a call whose download, write and upload all succeeded
\* returns success, and what it uploaded is the image it downloaded.
C14_NoSharedTempFile ==
  pc = "concurrent" =>
    /\ \A i, j \in Calls :
         (i # j /\ HasTempFile(i) /\ HasTempFile(j)) => inv[i].tempPath # inv[j].tempPath
    /\ \A i \in Calls :
         inv[i].sent # Undefined => inv[i].sent = FileOf({i})

(***************************************************************************)
(* Claims about the request configuration                                  *)
(***************************************************************************)
ConfigBuilt == pc # "config" /\ ret # Undefined /\ ret.t = "requestConfig"

\* the names a header object supplies
NamesIn(h) == IF h \in {Undefined, Null} THEN {} ELSE DOMAIN h.f

OptionHeaders == OptionOf(options, "headers")

\* C15: the headers sent are the four defaults overlaid by the caller's:
\* a name given in config.headers has the value given there, a name given
\* only in options.headers has that value, a default name the caller did
\* not give has its default value, and no other name is sent.
C15_HeaderMerge ==
  ConfigBuilt =>
    LET sent == ret.headers.f IN
    /\ DOMAIN sent = {"User-Agent", "Accept", "Accept-Encoding", "Accept-Language"}
                       \cup NamesIn(OptionHeaders) \cup NamesIn(arg.headers)
    /\ \A n \in DOMAIN sent :
         sent[n] = IF n \in NamesIn(arg.headers) THEN arg.headers.f[n]
                   ELSE IF n \in NamesIn(OptionHeaders) THEN OptionHeaders.f[n]
                   ELSE DefaultHeaders[n]
    /\ sent["Accept-Encoding"] = Str(T_acceptEncoding)
    /\ "Accept" \notin NamesIn(OptionHeaders) \cup NamesIn(arg.headers)
         => sent["Accept"] = Str(<<"*", "/", "*">>)

C15_Witness ==
  /\ ConfigBuilt
  /\ NamesIn(OptionHeaders) = {"Accept", "X-Key"}
  /\ NamesIn(arg.headers) = {"Accept"}
  /\ ret.headers.f["Accept"] = Str(<<"c">>)
  /\ ret.headers.f["X-Key"] = Str(<<"o">>)
  /\ ret.headers.f["User-Agent"] = Str(T_userAgent)

Given(name) == OptionOf(options, name) # Undefined

\* C16: an option that is absent or undefined takes its default, timeout
\* 30000, retries 3, retryDelay 1000; the timeout of the request is the
\* option's (or the default), never the one in config; with no options and
\* only retryable failures 4 attempts are made, with sleeps 1000, 2000, 3000.
C16_Defaults ==
  ConfigBuilt =>
    /\ ret.timeout = (IF Given("timeout") THEN options.timeout ELSE Num(30000))
    /\ retries = (IF Given("retries") THEN options.retries.n ELSE 3)
    /\ retryDelay = (IF Given("retryDelay") THEN options.retryDelay.n ELSE 1000)
    /\ (options = Undefined /\ pc = "thrown" /\ AllRetryable(calls)) =>
         /\ Len(calls) = 4
         /\ sleeps = <<1000, 2000, 3000>>
         /\ ret.timeout = Num(30000)

C16_Witness ==
  /\ ConfigBuilt
  /\ options = Undefined
  /\ arg.timeout = Num(99)
  /\ pc = "thrown" /\ AllRetryable(calls) /\ Len(calls) = 4
  /\ ret.timeout = Num(30000)

\* C17: every envelope, success or error, carries a string field named
\* creator whose value is the constant "NB Team".
C17_CreatorField ==
  (pc \in {"builtError", "builtSuccess"} /\ envelope.t = "envelope") =>
    /\ "creator" \in DOMAIN envelope
    /\ envelope["creator"] = "NB Team"

(***************************************************************************)
(* Claims about blackboxAi                                                 *)
(***************************************************************************)
W_empty == <<"e", "m", "p", "t", "y">>
W_tooLong == <<"t", "o", "o", " ", "l", "o", "n", "g">>

\* the call ended, without any request, with an error envelope whose
\* message contains the word
RejectedWith(word) ==
  /\ netCount = 0
  /\ pc # "request"
  /\ pc = "done" => /\ IsEnvelope(ret) /\ ret.status = FALSE
                    /\ Includes(ret.error.s, word)

\* C18: blackboxAi makes no request and returns an error containing
\* "empty" for an empty or whitespace-only query, and an error containing
\* "too long" for a query whose trimmed length exceeds 10,000; a query of
\* trimmed length 1 to 10,000 goes on to the request.
C18_QueryChecks ==
  (adapter = "blackboxAi" /\ arg.t = "string") =>
    LET n == Len(Trim(arg.s)) IN
    /\ n = 0 => RejectedWith(W_empty)
    /\ n > 10000 => RejectedWith(W_tooLong)
    /\ (n >= 1 /\ n <= 10000 /\ pc # "entry") => (pc = "request" \/ netCount >= 1)

C18_Witness ==
  /\ adapter = "blackboxAi" /\ arg = Str(Repeat(10001))
  /\ pc = "done" /\ netCount = 0
  /\ ret.t = "envelope" /\ Includes(ret.error.s, W_tooLong)

C18_WitnessEmpty ==
  /\ adapter = "blackboxAi" /\ arg = Str(<<" ", "\t">>)
  /\ pc = "done" /\ netCount = 0
  /\ ret.t = "envelope" /\ Includes(ret.error.s, W_empty)

C18_WitnessPasses ==
  /\ adapter = "blackboxAi" /\ arg = Str(<<" ">> \o Repeat(10000) \o <<"\t">>)
  /\ pc = "request"

W_FailedToParse == <<"F", "a", "i", "l", "e", "d", " ", "t", "o", " ", "p", "a", "r", "s", "e">>

BodyHandled == pc = "done" /\ dataIn.t = "string" /\ adapter = "blackboxAi" /\ netCount = 1

BodyParts == Split(dataIn.s, Delimiter)

SucceededWith(response, source) ==
  /\ IsEnvelope(ret) /\ ret.status = TRUE
  /\ ret.data.response = Str(response)
  /\ ret.data.source = source

\* C19: a body that is non-empty text, optionally followed by one
\* delimiter, gives success with the trimmed text and no sources; a body
\* "$~~~$<sources>$~~~$<text>" gives success with the text and the parsed
\* sources, or no sources when <sources> is no JSON array; an empty body
\* gives an error containing "Failed to parse".
C19_BodyParsing ==
  BodyHandled =>
    /\ (Len(BodyParts) = 1 /\ Trim(BodyParts[1]) # <<>>)
         => SucceededWith(Trim(BodyParts[1]), <<>>)
    /\ (Len(BodyParts) = 2 /\ Trim(BodyParts[1]) # <<>> /\ BodyParts[2] = <<>>)
         => SucceededWith(Trim(BodyParts[1]), <<>>)
    /\ (Len(BodyParts) = 3 /\ BodyParts[1] = <<>> /\ Trim(BodyParts[3]) # <<>>
          /\ Trim(BodyParts[2]) = J_oneSource)
         => SucceededWith(Trim(BodyParts[3]),
              <<Obj([link |-> Str(<<"l">>), title |-> Str(<<"t">>),
                     snippet |-> Str(<<>>), position |-> Num(0)])>>)
    /\ (Len(BodyParts) = 3 /\ BodyParts[1] = <<>> /\ Trim(BodyParts[3]) # <<>>
          /\ Trim(BodyParts[2]) \in {<<"a">>, J_object})
         => SucceededWith(Trim(BodyParts[3]), <<>>)
    /\ dataIn.s = <<>>
         => (IsEnvelope(ret) /\ ret.status = FALSE /\ Includes(ret.error.s, W_FailedToParse))

(***************************************************************************)
(* Claims about Ytdl.mp4                                                   *)
(***************************************************************************)
Polling == adapter = "Ytdl.mp4"

PollsWithoutUrl == calls.none + calls.glitch

\* C20: Ytdl.mp4 makes at most 40 polls and waits 3 seconds before each; it
\* returns success with the download_url of the first poll that has one and
\* polls no further; when none of 40 polls has one it returns an error
\* containing "Timeout: please try again".
C20_PollingBound ==
  Polling =>
    /\ netCount <= 40
    /\ Len(sleeps) = (IF pc = "poll" THEN netCount + 1 ELSE netCount)
    /\ \A i \in 1 .. Len(sleeps) : sleeps[i] = 3000
    /\ (pc = "done" /\ IsEnvelope(ret) /\ ret.status = TRUE) =>
         /\ ret.data.f["downloadUrl"] = result
         /\ result = Str(U_threads)
         /\ netCount = PollsWithoutUrl + 1
    /\ (pc = "done" /\ PollsWithoutUrl = 40) =>
         /\ netCount = 40
         /\ IsEnvelope(ret) /\ ret.status = FALSE
         /\ Includes(ret.error.s, T_PollTimeout)
    /\ (pc = "done" /\ IsEnvelope(ret) /\ ret.status = FALSE
          /\ Includes(ret.error.s, T_PollTimeout)) => PollsWithoutUrl = 40

C20_Witness ==
  /\ Polling /\ pc = "done"
  /\ netCount = 40 /\ Len(sleeps) = 40
  /\ ret.t = "envelope" /\ ret.status = FALSE
  /\ Includes(ret.error.s, T_PollTimeout)

C20_WitnessSuccess ==
  /\ Polling /\ pc = "done"
  /\ netCount = 3 /\ calls.none = 1 /\ calls.glitch = 1
  /\ ret.t = "envelope" /\ ret.status = TRUE
  /\ sleeps = <<3000, 3000, 3000>>

(***************************************************************************)
(* Claims about generateLyrics                                             *)
(***************************************************************************)
\* the call is the documented one: genre and mood absent or listed keys
DocumentedLyricsCall ==
  /\ adapter = "generateLyrics"
  /\ Lookup(arg, "genre") \in {Undefined, Str(T_folk)}
  /\ Lookup(arg, "mood") \in {Undefined, Str(T_nostalgic)}
  /\ Lookup(arg, "keyword") = Undefined

CarriesLyrics(data) == data # Undefined /\ ~IsFalsy(Lookup(data, "lyrics"))

\* C21: generateLyrics called with a non-empty topic, genre and mood absent
\* or among the listed keys, and an API response carrying lyrics, returns a
\* success envelope that echoes the topic and holds the display labels of
\* genre, mood, structure and language.
C21_DocumentedCallSucceeds ==
  (DocumentedLyricsCall /\ CarriesLyrics(dataIn) /\ pc = "done"
     /\ (calls = <<>> \/ calls[Len(calls)].ok)) =>
    /\ IsEnvelope(ret) /\ ret.status = TRUE
    /\ ret.data.f["topic"] = Lookup(arg, "topic")
    /\ ret.data.f["genre"] = LabelOf("genre", Defaulted(Lookup(arg, "genre"), Str(T_pop)))
    /\ ret.data.f["mood"] = LabelOf("mood", Defaulted(Lookup(arg, "mood"), Str(T_happy)))

(***************************************************************************)
(* Claims about tiktok                                                     *)
(***************************************************************************)
W_INVALID_INPUT == <<"I", "N", "V", "A", "L", "I", "D", "_", "I", "N", "P", "U", "T">>
W_TokenNotFound == <<"T", "o", "k", "e", "n", " ", "n", "o", "t", " ", "f", "o", "u", "n", "d">>
W_FailedToExtract == <<"F", "a", "i", "l", "e", "d", " ", "t", "o", " ", "e", "x", "t", "r", "a", "c", "t", " ", "v", "i", "d", "e", "o", " ", "i", "n", "f", "o", "r", "m", "a", "t", "i", "o", "n">>

TiktokErrorWith(word) ==
  /\ IsEnvelope(ret) /\ ret.status = FALSE
  /\ Includes(ret.error.s, word)

\* C22: tiktok called with a URL that is no TikTok URL returns an error
\* containing "INVALID_INPUT"; a token page without a token gives an error
\* containing "Token not found"; a result page with neither video links nor
\* photos gives an error containing "Failed to extract video information".
C22_TiktokErrors ==
  (adapter = "tiktok" /\ pc = "done") =>
    /\ arg = Str(U_notTiktok) => TiktokErrorWith(W_INVALID_INPUT)
    /\ (arg = Str(U_tiktok) /\ trace = <<"tokenPage">> /\ ~dataIn.token) =>
         TiktokErrorWith(W_TokenNotFound)
    /\ (arg = Str(U_tiktok) /\ trace = <<"tokenPage", "resultPage">>
          /\ dataIn.links = 0 /\ dataIn.photos = 0) =>
         TiktokErrorWith(W_FailedToExtract)

(***************************************************************************)
(* Claims about threads                                                    *)
(***************************************************************************)
ThreadsAnswered ==
  /\ adapter = "threads" /\ pc = "done"
  /\ trace = <<"response">> /\ dataIn.t = "object"

ImagesOnly == options.imagesOnly = Bool(TRUE)
VideosOnly == options.videosOnly = Bool(TRUE)

ParsedImages == ParseMediaUrls(Lookup(dataIn, "image_urls"))
ParsedVideos == ParseMediaUrls(Lookup(dataIn, "video_urls"))

\* the lists the claim says are returned
WantedImages == IF VideosOnly /\ ~ImagesOnly THEN <<>> ELSE ParsedImages
WantedVideos == IF ImagesOnly THEN <<>> ELSE ParsedVideos

W_NoMedia == <<"N", "o", " ", "m", "e", "d", "i", "a", " ", "f", "o", "u", "n", "d", " ", "i", "n", " ", "t", "h", "e", " ", "T", "h", "r", "e", "a", "d", "s", " ", "p", "o", "s", "t">>

\* C23: with imagesOnly the result's video_urls is empty, with videosOnly
\* (and no imagesOnly) image_urls is empty, with neither both parsed lists
\* are returned; a success envelope holds at least one URL, and when both
\* filtered lists are empty the result is the error "No media found in the
\* Threads post", even if the unfiltered response had media.
C23_ThreadsFilters ==
  ThreadsAnswered =>
    /\ IsEnvelope(ret)
    /\ ret.status = TRUE =>
         /\ ret.data.f["image_urls"].items = WantedImages
         /\ ret.data.f["video_urls"].items = WantedVideos
         /\ ImagesOnly => ret.data.f["video_urls"].items = <<>>
         /\ (VideosOnly /\ ~ImagesOnly) => ret.data.f["image_urls"].items = <<>>
         /\ Len(ret.data.f["image_urls"].items) + Len(ret.data.f["video_urls"].items) >= 1
    /\ (WantedImages = <<>> /\ WantedVideos = <<>>) =>
         /\ ret.status = FALSE
         /\ Includes(ret.error.s, W_NoMedia)
    /\ ret.status = FALSE => (WantedImages = <<>> /\ WantedVideos = <<>>)

C23_Witness ==
  /\ ThreadsAnswered
  /\ ImagesOnly /\ VideosOnly
  /\ ParsedImages # <<>> /\ ParsedVideos # <<>>
  /\ ret.status = TRUE
  /\ ret.data.f["video_urls"].items = <<>>

C23_WitnessNoMedia ==
  /\ ThreadsAnswered
  /\ ImagesOnly
  /\ ParsedImages = <<>> /\ ParsedVideos # <<>>
  /\ ret.status = FALSE
  /\ Includes(ret.error.s, W_NoMedia)

C23_WitnessVideosOnly ==
  /\ ThreadsAnswered
  /\ VideosOnly /\ ~ImagesOnly
  /\ ParsedImages # <<>> /\ ParsedVideos # <<>>
  /\ ret.status = TRUE
  /\ ret.data.f["image_urls"].items = <<>>

\* the step is a poll of waitForDownloadUrl
IsPoll == Polling /\ pc = "poll" /\ netCount' = netCount + 1

RemoteResponded(status) == <<"R", "e", "m", "o", "t", "e", " ", "s", "e", "r", "v", "e", "r", " ", "r", "e", "s", "p", "o", "n", "d", "e", "d", " ", "w", "i", "t", "h", " ">> \o Digits(status)

\* C24: a poll that fails with an HTTP response of status >= 400 ends the
\* polling at once with the error "Remote server responded with <status>"
\* and no poll follows; a poll that fails without an HTTP response, or is
\* answered without a download_url, counts as one attempt and the polling
\* goes on.
C24_PollFailures ==
  /\ [][IsPoll =>
          /\ (lastError'.kind = "status" /\ lastError'.status >= 400) =>
               /\ pc' = "done"
               /\ attempt' = attempt
               /\ result' = Err("Error", RemoteResponded(lastError'.status))
               /\ ret'.t = "envelope" /\ ret'.status = FALSE
               /\ Includes(ret'.error.s, RemoteResponded(lastError'.status))
          /\ lastError'.kind \in {"none", "glitch"} =>
               /\ pc' = "wait"
               /\ attempt' = attempt + 1
               /\ attempt' <= 40
               /\ ret' = ret /\ result' = result]_vars
  /\ [][(Polling /\ pc = "done") => netCount' = netCount]_vars
  /\ [](Polling /\ pc = "wait" /\ attempt < 40 => ENABLED PollWait)

C24_Witness ==
  /\ Polling /\ pc = "done"
  /\ lastError = PollOutcome("status", 404)
  /\ netCount = 3 /\ attempt = 2
  /\ calls.none = 1 /\ calls.glitch = 1
  /\ Includes(ret.error.s, RemoteResponded(404))

C24_WitnessContinues ==
  /\ Polling /\ pc = "poll"
  /\ lastError = PollOutcome("glitch", 0)
  /\ attempt = 39 /\ netCount = 39

(***************************************************************************)
(* Claims about getClientID                                                *)
(***************************************************************************)
SoundCloud == pc = "soundcloud"

\* getClientID of call i has returned
ClientIdReturned(i) == inv[i].got.t \in {"null", "number"}

\* the scripts of call i up to and including the first one with a client_id
FirstWithId(scripts) ==
  IF \E j \in 1 .. Len(scripts) : scripts[j] = "id"
    THEN CHOOSE j \in 1 .. Len(scripts) :
           scripts[j] = "id" /\ \A h \in 1 .. j - 1 : scripts[h] # "id"
    ELSE 0

\* C25: getClientID fetches the homepage on every call; when the page's
\* version equals the cached one it returns the cached id without asking
\* for any script; when it differs it asks for the scripts in page order,
\* stops at the first one with a client_id, stores (version, id) and returns
\* the id; without a version or a client_id it returns null.
C25_GetClientId ==
  /\ [][SoundCloud =>
          \A i \in Calls :
            (~ClientIdReturned(i) /\ ClientIdReturned(i)') =>
              LET c == inv[i]  d == inv'[i] IN
              \/ \* the page had no version
                 /\ c.pc = "home" /\ d.version = 0
                 /\ d.got = Null /\ d.asked = <<>> /\ world' = world
              \/ \* the version is the cached one
                 /\ c.pc = "home" /\ d.version # 0
                 /\ d.version = world.cache.version
                 /\ d.got = Num(world.cache.id) /\ d.asked = <<>> /\ world' = world
              \/ \* the version differs and the page has no script
                 /\ c.pc = "home" /\ d.version # 0
                 /\ d.version # world.cache.version
                 /\ d.got = Null /\ d.asked = <<>> /\ world' = world
              \/ \* the version differed and a script had a client_id
                 /\ c.pc = "scripts" /\ FirstWithId(c.scripts) # 0
                 /\ d.asked = [j \in 1 .. FirstWithId(c.scripts) |-> j]
                 /\ d.got = Num(IdOf(c.version))
                 /\ world'.cache = [version |-> c.version, id |-> IdOf(c.version)]
              \/ \* the version differed and no script had a client_id
                 /\ c.pc = "scripts" /\ FirstWithId(c.scripts) = 0
                 /\ d.asked = [j \in 1 .. Len(c.scripts) |-> j]
                 /\ d.got = Null /\ world' = world]_vars
  /\ [](SoundCloud =>
          \A i \in Calls :
            (inv[i].pc = "scripts" /\ inv[i].version # 0) =>
              \* a call asks for scripts only after its homepage, and in order
              /\ inv[i].asked = [j \in 1 .. inv[i].k - 1 |-> j]
              /\ \A j \in 1 .. inv[i].k - 1 : inv[i].scripts[j] # "id")

C25_Witness ==
  /\ SoundCloud
  /\ \E i \in Calls :
       /\ inv[i].got = Num(IdOf(1)) /\ inv[i].asked = <<>> /\ inv[i].version = 1
  /\ \E i \in Calls :
       /\ inv[i].got = Num(IdOf(1)) /\ inv[i].asked = <<1, 2>> /\ inv[i].version = 1
  /\ world.cache = [version |-> 1, id |-> IdOf(1)]

C25_WitnessNull ==
  /\ SoundCloud
  /\ \E i \in Calls :
       /\ inv[i].got = Null /\ inv[i].asked = <<1, 2>> /\ inv[i].version = 2

\* C26: under any interleaving of concurrent searchSoundCloud calls the
\* cache holds the initial pair or a (version, id) pair written in one step
\* by one getClientID invocation; every id getClientID returns was extracted
\* for the version the returning invocation observed; the cache is written
\* only when a client_id was found and is left unchanged by an invocation
\* that fails or returns null.
C26_CacheConsistency ==
  /\ [](SoundCloud =>
          /\ \/ world.cache = [version |-> 0, id |-> 0]
             \/ \E v \in Versions : world.cache = [version |-> v, id |-> IdOf(v)]
          /\ \A i \in Calls :
               inv[i].got.t = "number" => inv[i].got = Num(IdOf(inv[i].version)))
  /\ [][SoundCloud =>
          /\ world'.cache # world.cache =>
               \E i \in Calls :
                 /\ inv[i].pc = "scripts" /\ inv[i].scripts[inv[i].k] = "id"
                 /\ inv'[i].got = Num(world'.cache.id)
                 /\ world'.cache = [version |-> inv[i].version, id |-> IdOf(inv[i].version)]
                 /\ \A j \in Calls \ {i} : inv'[j] = inv[j]
          /\ \A i \in Calls :
               (inv[i].got = Undefined /\ inv'[i].got.t \in {"null", "Error"}) =>
                 world'.cache = world.cache]_vars

C26_Witness ==
  /\ SoundCloud
  /\ inv[1].got = Num(IdOf(1)) /\ inv[1].version = 1 /\ inv[1].asked # <<>>
  /\ inv[2].got = Num(IdOf(2)) /\ inv[2].version = 2 /\ inv[2].asked # <<>>
  /\ world.cache = [version |-> 1, id |-> IdOf(1)]

(***************************************************************************)
(* Claims about makeRequest with any number of retries                     *)
(***************************************************************************)
\* C27: for every integer value of retries, negative ones included,
\* makeRequest makes at least one attempt before it fails, and what it
\* throws is the error of one of its own attempts, never undefined.
C27_ThrowsOwnError ==
  (pc = "thrown" /\ adapter = "none") =>
    /\ Len(calls) >= 1
    /\ result # Undefined
    /\ \E i \in 1 .. Len(calls) : ~calls[i].ok /\ result = ErrorOf(i - 1, calls[i])

(***************************************************************************)
(* Claims about the kind tag                                               *)
(***************************************************************************)
L_TypeNetwork == <<"\"", "t", "y", "p", "e", "\"", ":", "\"", "N", "E", "T", "W", "O", "R", "K", "_", "E", "R", "R", "O", "R", "\"">>

\* C28: the kind tag of an error envelope depends only on the first
\* argument of createErrorResponse: with any context the envelope carries
\* the tag it carries without context; a type key inside the context only
\* appears in the serialized context and never changes the tag.
C28_TagFromErrorOnly ==
  (pc = "builtError" /\ envelope.t = "envelope") =>
    LET alone == CreateErrorResponse(errorIn, Undefined) IN
    /\ alone.t = "envelope"
    /\ TagOf(envelope.error.s) = TagOf(alone.error.s)
    /\ contextIn = Ctx(<<[k |-> K_type, v |-> Str(KindText("NETWORK_ERROR"))]>>) =>
         /\ envelope.error.s = alone.error.s \o L_ContextType
         /\ Includes(SubSeq(envelope.error.s, Len(alone.error.s) + 1, Len(envelope.error.s)),
                     L_TypeNetwork)

C28_Witness ==
  /\ pc = "builtError" /\ envelope.t = "envelope"
  /\ errorIn = Err("Error", W_rate)
  /\ contextIn = Ctx(<<[k |-> K_type, v |-> Str(KindText("NETWORK_ERROR"))]>>)
  /\ TagOf(envelope.error.s) = KindText("RATE_LIMITED")

(***************************************************************************)
(* Claims about the temporary file                                         *)
(***************************************************************************)
\* no other call created a file of the same name
OwnTempFile(i) ==
  /\ HasTempFile(i)
  /\ \A j \in Calls \ {i} : HasTempFile(j) => inv[j].tempPath # inv[i].tempPath

\* C29: generatePollinationsImage leaves no temporary file behind: on every
\* exit path (success, failed download, failed write, failed upload) the
\* temporary file it created is deleted by the time it returns.
C29_NoTempFileLeft ==
  pc = "concurrent" =>
    \A i \in Calls :
      (inv[i].pc = "done" /\ OwnTempFile(i)) => FileAt(inv[i].tempPath) = Absent

(***************************************************************************)
(* Claims about ytmp3cc.download                                           *)
(***************************************************************************)
\* C30: ytmp3cc.download terminates: its progress-check loop ends after a
\* bounded number of checks with a success envelope (only after a check
\* reported progress 3 without error) or an error envelope, even when the
\* service keeps answering without ever reporting progress 3 or an error.
C30_DownloadTerminates ==
  /\ <>(adapter = "ytmp3cc.download" /\ pc = "done" /\ ret.t = "envelope")
  /\ []((adapter = "ytmp3cc.download" /\ pc = "done" /\ ret.t = "envelope" /\ ret.status = TRUE)
          => (result.progress = 3 /\ ~result.error))

====
